---- MODULE Spec2Model ----
(***************************************************************************)
(* Model of the adaptive recommendation engine of Life-Os (src-tauri):     *)
(*   ml/bandit_v2.rs      LinearBanditParams, HybridBandit                  *)
(*   ml/models.rs         MultiScaleReward, RewardEngine                    *)
(*   ml/embedding.rs      run_embedding_task and its semaphore              *)
(*   agent/intelligence.rs IntelligenceAgent                                *)
(*   commands/intelligence.rs  the tauri commands in front of the agent     *)
(*                                                                         *)
(* Real numbers (f32/f64 in the source) are exact rationals <<n, d>> here:  *)
(* the model follows the algebra of the code, not its rounding.            *)
(***************************************************************************)
EXTENDS Integers, Sequences, FiniteSets, TLC

\* ------------------------------------------------------------------ bounds
\* Number of features kept of the 50 of rich_features.rs (FEATURE_DIM = 50).
FEATURE_DIM == 2
\* Number of commands the clients issue in one behaviour.
MaxCalls == 2
\* Age in days from which the rows of the reward log are told apart no more.
MaxDay == 2
\* Number of callers of run_embedding_task.
NTasks == 4

\* --------------------------------------------------------------- rationals
RECURSIVE Gcd(_, _)
Gcd(a, b) ==
    CHOOSE r \in {IF y = 0 THEN x ELSE Gcd(y, x % y) : x \in {a}, y \in {b}} : TRUE

Abs(n) == IF n < 0 THEN -n ELSE n
Min(a, b) == IF a < b THEN a ELSE b

\* The rational n/d (d # 0) in lowest terms with a positive denominator.
Norm(n, d) ==
    CHOOSE r \in {LET g == Gcd(Abs(x), Abs(y))
                      s == IF y < 0 THEN -1 ELSE 1
                  IN  <<(s * x) \div g, (s * y) \div g>> :
                  x \in {n}, y \in {d}} : TRUE

R(n) == <<n, 1>>
Half == <<1, 2>>
\* Sums and comparisons go through the common factor of the denominators,
\* products cancel crosswise first, so that intermediate values stay small.
RAdd(a, b) ==
    CHOOSE r \in {LET g == Gcd(x[2], y[2])
                  IN  Norm(x[1] * (y[2] \div g) + y[1] * (x[2] \div g),
                           (x[2] \div g) * y[2]) :
                  x \in {a}, y \in {b}} : TRUE
RSub(a, b) == RAdd(a, <<-b[1], b[2]>>)
RMul(a, b) ==
    CHOOSE r \in {LET g1 == Gcd(Abs(x[1]), y[2])
                      g2 == Gcd(Abs(y[1]), x[2])
                  IN  IF x[1] = 0 \/ y[1] = 0 THEN <<0, 1>>
                      ELSE <<(x[1] \div g1) * (y[1] \div g2),
                             (x[2] \div g2) * (y[2] \div g1)>> :
                  x \in {a}, y \in {b}} : TRUE
RDiv(a, b) ==
    IF b[1] > 0 THEN RMul(a, <<b[2], b[1]>>) ELSE RMul(a, <<-b[2], -b[1]>>)
RNeg(a) == <<-a[1], a[2]>>
\* a/b < c/d for a, c >= 0 and b, d > 0, by continued fractions (no products)
RECURSIVE CfLess(_, _, _, _)
CfLess(a, b, c, d) ==
    IF a \div b # c \div d THEN a \div b < c \div d
    ELSE IF c % d = 0 THEN FALSE
    ELSE IF a % b = 0 THEN TRUE
    ELSE CfLess(d, c % d, b, a % b)
RLt(a, b) ==
    IF a[1] < 0
    THEN (IF b[1] >= 0 THEN TRUE ELSE CfLess(-b[1], b[2], -a[1], a[2]))
    ELSE (IF b[1] <= 0 THEN FALSE ELSE CfLess(a[1], a[2], b[1], b[2]))
RLe(a, b) == ~RLt(b, a)
RIsZero(a) == a[1] = 0

\* ---------------------------------------------------------- linear algebra
\* DVector<f64> is a function 1..FEATURE_DIM -> rational, DMatrix<f64> a
\* function of rows, m[i][j].
Idx == 1..FEATURE_DIM

RECURSIVE SumOver(_, _)
SumOver(f, S) ==
    IF S = {} THEN R(0)
    ELSE LET i == CHOOSE k \in S : TRUE IN RAdd(f[i], SumOver(f, S \ {i}))

Dot(u, v) == SumOver([i \in Idx |-> RMul(u[i], v[i])], Idx)
VAdd(u, v) == [i \in Idx |-> RAdd(u[i], v[i])]
VScale(u, c) == [i \in Idx |-> RMul(u[i], c)]
MatVec(m, v) == [i \in Idx |-> Dot(m[i], v)]
Outer(u, v) == [i \in Idx |-> [j \in Idx |-> RMul(u[i], v[j])]]
MAdd(a, b) == [i \in Idx |-> [j \in Idx |-> RAdd(a[i][j], b[i][j])]]
MScale(a, c) == [i \in Idx |-> [j \in Idx |-> RMul(a[i][j], c)]]
Identity == [i \in Idx |-> [j \in Idx |-> IF i = j THEN R(1) ELSE R(0)]]
Zeros == [i \in Idx |-> R(0)]

\* The k-th smallest element of a finite set of integers.
RECURSIVE Nth(_, _)
Nth(S, k) ==
    LET m == CHOOSE x \in S : \A y \in S : x <= y
    IN  IF k = 1 THEN m ELSE Nth(S \ {m}, k - 1)

\* Determinant of the submatrix of m on rows rs and columns cs (Laplace
\* expansion along the first row of rs).
RECURSIVE Det(_, _, _)
Det(m, rs, cs) ==
    IF rs = {} THEN R(1)
    ELSE LET r == Nth(rs, 1)
             n == Cardinality(cs)
             term(k) ==
                 LET c == Nth(cs, k)
                     d == RMul(m[r][c], Det(m, rs \ {r}, cs \ {c}))
                 IN  IF k % 2 = 1 THEN d ELSE RNeg(d)
         IN  SumOver([k \in 1..n |-> term(k)], 1..n)

\* Option<T> / a nullable column: None, or Some(v).
None == [some |-> FALSE]
Some(v) == [some |-> TRUE, v |-> v]

\* DMatrix::try_inverse: None for a singular matrix, else the inverse
\* (adjugate over determinant).
TryInverse(m) ==
    LET d == Det(m, Idx, Idx)
    IN  IF RIsZero(d) THEN None
        ELSE Some([i \in Idx |-> [j \in Idx |->
                LET cof == Det(m, Idx \ {j}, Idx \ {i})
                    sgn == IF (i + j) % 2 = 0 THEN cof ELSE RNeg(cof)
                IN  RDiv(sgn, d)]])

\* ------------------------------------------------ LinearBanditParams (pure)
PRIOR_PRECISION == 1
NOISE_PRECISION == 1
\* step of the gradient fallback of LinearBanditParams::update, in 1/100
GRADIENT_STEP_PCT == 1

\* LinearBanditParams::new
NewParams == [mu |-> Zeros, precision |-> MScale(Identity, R(PRIOR_PRECISION))]

\* A stored blob: the f64 words it holds, in order, and the bytes left over
\* after the last whole word.  Its byte length is 8 * Len(words) + tail.
ByteLen(blob) == 8 * Len(blob.words) + blob.tail

\* LinearBanditParams::to_bytes: mu in index order; the matrix in the order of
\* DMatrix::iter, which is column by column.
ToBytes(params) ==
    [theta |-> [words |-> [k \in Idx |-> params.mu[k]], tail |-> 0],
     prec  |-> [words |-> [k \in 1..(FEATURE_DIM * FEATURE_DIM) |->
                    params.precision[((k - 1) % FEATURE_DIM) + 1]
                                    [((k - 1) \div FEATURE_DIM) + 1]],
                tail |-> 0]]

\* A from_bytes that fills the matrix row by row.
FromBytesRowMajor(theta, prec) ==
    IF ByteLen(theta) # FEATURE_DIM * 8 THEN None
    ELSE IF ByteLen(prec) # FEATURE_DIM * FEATURE_DIM * 8 THEN None
    ELSE Some([mu |-> [i \in Idx |-> theta.words[i]],
               precision |-> [i \in Idx |-> [j \in Idx |->
                                 prec.words[(i - 1) * FEATURE_DIM + j]]]])

\* LinearBanditParams::from_bytes: None unless both lengths are exact;
\* DMatrix::from_vec fills column by column.
FromBytes(theta, prec) ==
    IF ByteLen(theta) # FEATURE_DIM * 8 THEN None
    ELSE IF ByteLen(prec) # FEATURE_DIM * FEATURE_DIM * 8 THEN None
    ELSE Some([mu |-> [i \in Idx |-> theta.words[i]],
               precision |-> [i \in Idx |-> [j \in Idx |->
                                 prec.words[(j - 1) * FEATURE_DIM + i]]]])

\* LinearBanditParams::predict
Predict(params, x) == Dot(params.mu, x)

\* An uncertainty that reads 0 when the precision has no inverse.
UncertaintySqZeroFallback(params, x) ==
    LET cov == TryInverse(params.precision)
    IN  IF ~cov.some THEN R(0)
        ELSE RDiv(Dot(x, MatVec(cov.v, x)), R(NOISE_PRECISION))

\* The square of LinearBanditParams::uncertainty: x' * cov * x / noise, or
\* 1.0 (whose square is 1) when the precision has no inverse.
UncertaintySq(params, x) ==
    LET cov == TryInverse(params.precision)
    IN  IF ~cov.some THEN R(1)
        ELSE RDiv(Dot(x, MatVec(cov.v, x)), R(NOISE_PRECISION))

\* Matrix::cholesky: the factorisation reads the lower triangle and exists
\* when every pivot is positive, that is, when every leading principal minor
\* of the symmetric matrix with that lower triangle is positive.
HasCholesky(m) ==
    LET sym == [i \in Idx |-> [j \in Idx |->
                   IF i >= j THEN m[i][j] ELSE m[j][i]]]
    IN  \A k \in Idx : RLt(R(0), Det(sym, 1..k, 1..k))

\* LinearBanditParams::thompson_sample: predict(x) when the precision has no
\* inverse or the covariance no Cholesky factor; else (mu + L z) . x, where
\* noise stands for (L z) . x of the random draw z.
ThompsonSample(params, x, noise) ==
    LET cov == TryInverse(params.precision)
    IN  IF ~cov.some THEN Predict(params, x)
        ELSE IF ~HasCholesky(cov.v) THEN Predict(params, x)
        ELSE RAdd(Predict(params, x), noise)

\* An update that moves the mean by a gradient step and leaves the precision
\* as it was.
ParamsUpdateMeanOnly(params, x, reward) ==
    [mu |-> VAdd(params.mu,
                 VScale(x, RMul(<<GRADIENT_STEP_PCT, 100>>,
                                RSub(reward, Dot(params.mu, x))))),
     precision |-> params.precision]

\* LinearBanditParams::update, as written: the precision is updated in place
\* first, and old_term is computed from the field after that update.
ParamsUpdate(params, x, reward) ==
    LET precNew == MAdd(params.precision, MScale(Outer(x, x), R(NOISE_PRECISION)))
        cov == TryInverse(precNew)
    IN  IF cov.some
        THEN LET old_term == MatVec(precNew, params.mu)
                 new_term == VScale(x, RMul(reward, R(NOISE_PRECISION)))
             IN  [mu |-> MatVec(cov.v, VAdd(old_term, new_term)),
                  precision |-> precNew]
        ELSE LET pred == Dot(params.mu, x)
                 error == RSub(reward, pred)
                 step == <<GRADIENT_STEP_PCT, 100>>
             IN  [mu |-> VAdd(params.mu, VScale(x, RMul(step, error))),
                  precision |-> precNew]

\* ------------------------------------------------------ RichContext (reduced)
\* The feature vector keeps FEATURE_DIM of the 50 features:
\* 1 similar_context_outcome, 2 energy_level, and from 3 on features that
\* read 0.0 by default.
SIMILAR_IDX == 1
ENERGY_IDX == 2

\* history_x_current as capture_context computes it, from the captured
\* similar_context_outcome and energy_level; it is a field of RichContext
\* that the reduced feature vector leaves out.
HistoryXCurrent(ctx) == RMul(ctx[SIMILAR_IDX], ctx[ENERGY_IDX])

\* RichContext::default().to_feature_vector(), reduced to FEATURE_DIM
\* features: similar_context_outcome, energy_level, then features whose
\* default is 0.0 (is_weekend, streak_days, ...).
DefaultContext ==
    [i \in Idx |-> IF i <= 2 THEN Half ELSE R(0)]

\* The vector capture_context builds for a normalised energy level e:
\* similar_context_outcome keeps its default until get_recommendations
\* enriches it, the remaining features read 0 on an empty database.
ContextOf(e) ==
    [i \in Idx |-> IF i = 2 THEN e
                   ELSE IF i = 1 THEN Half
                   ELSE R(0)]

\* No check-in today (the default 0.5), or a check-in with energy 10.
EnergyLevels == {Half, R(1)}

\* f32::clamp and f32::min on exact values
RClamp(x, lo, hi) == IF RLt(x, lo) THEN lo ELSE IF RLt(hi, x) THEN hi ELSE x
RMin(x, y) == IF RLt(y, x) THEN y ELSE x

\* The features capture_context derives from the ISO week of the clock
\* (week), today's check-in energy and yesterday's (energy, prev_energy, each
\* an Option<i32>), the number of study sessions of today (pomodoros), the
\* study minutes since the start of the week (week_study) and the sum of the
\* courses' weekly target hours (target).
CapturedFeatures(week, energy, prev_energy, pomodoros, week_study, target) ==
    [week_of_year |-> Norm(week, 52),
     energy_level |-> IF energy.some THEN Norm(energy.v - 1, 9) ELSE Half,
     energy_trajectory |->
         IF energy.some /\ prev_energy.some
         THEN RClamp(Norm(energy.v - prev_energy.v, 9), R(-1), R(1))
         ELSE R(0),
     pomodoros_today |-> RMin(Norm(pomodoros, 12), R(1)),
     study_hours_week |-> Norm(week_study, 60 * 40),
     target_hours_week |-> RMin(Norm(target, 40), R(1)),
     workload_balance |->
         IF target > 0
         THEN RClamp(Norm(week_study, 60 * target), R(0), R(2))
         ELSE R(1)]

\* RichFeatureStore::capture_context: Err when a query whose error is
\* propagated fails, else the captured context.
CaptureOutcomes ==
    {[ok |-> FALSE, ctx |-> DefaultContext]}
        \cup {[ok |-> TRUE, ctx |-> ContextOf(e)] : e \in EnergyLevels}

\* ------------------------------------------------------------- RewardEngine
\* An average in which a task not completed counts as a signal of 0.0.
compute_immediate_reward_counting_incomplete(acted_on, feedback_score, task_completed, satisfaction_rating) ==
    LET r1 == IF acted_on THEN R(1) ELSE <<1, 5>>
        r2 == IF feedback_score.some
              THEN RAdd(r1, Norm(feedback_score.v + 1, 2)) ELSE r1
        w2 == IF feedback_score.some THEN 2 ELSE 1
        r3 == IF task_completed THEN RAdd(r2, R(1)) ELSE r2
        w3 == w2 + 1
        r4 == IF satisfaction_rating.some
              THEN RAdd(r3, Norm(satisfaction_rating.v - 1, 4)) ELSE r3
        w4 == IF satisfaction_rating.some THEN w3 + 1 ELSE w3
    IN  RDiv(r4, R(w4))

\* RewardEngine::compute_immediate_reward; feedback_score and
\* satisfaction_rating are Option<i32>.
compute_immediate_reward(acted_on, feedback_score, task_completed, satisfaction_rating) ==
    LET r1 == IF acted_on THEN R(1) ELSE <<1, 5>>
        r2 == IF feedback_score.some
              THEN RAdd(r1, Norm(feedback_score.v + 1, 2)) ELSE r1
        w2 == IF feedback_score.some THEN 2 ELSE 1
        r3 == IF task_completed THEN RAdd(r2, R(1)) ELSE r2
        w3 == IF task_completed THEN w2 + 1 ELSE w2
        r4 == IF satisfaction_rating.some
              THEN RAdd(r3, Norm(satisfaction_rating.v - 1, 4)) ELSE r3
        w4 == IF satisfaction_rating.some THEN w3 + 1 ELSE w3
    IN  IF w4 > 0 THEN RDiv(r4, R(w4)) ELSE Half

\* ------------------------------------------------------------- HybridBandit
DEFAULT_BETA == 2

\* The catalog of agent_linear_bandit, in row order.
Catalog == <<"start_pomodoro", "do_workout", "do_checkin">>
Actions == {Catalog[i] : i \in 1..Len(Catalog)}

\* Result<T, String>
Ok(v) == [ok |-> TRUE, err |-> "", v |-> v]
Err(e) == [ok |-> FALSE, err |-> e, v |-> <<>>]

\* HybridBandit::load_params over the table tbl
LoadParams(tbl, action_name) ==
    IF action_name \notin DOMAIN tbl THEN Ok(NewParams)
    ELSE LET row == tbl[action_name]
         IN  IF row.theta.some /\ row.precision_matrix.some
             THEN LET parsed == FromBytes(row.theta.v, row.precision_matrix.v)
                  IN  IF parsed.some THEN Ok(parsed.v) ELSE Err("Invalid params")
             ELSE Ok(NewParams)

\* expected_reward and the square of uncertainty of one scored action
ScoreOf(params, x) == [p |-> Predict(params, x), u |-> UncertaintySq(params, x)]

\* A score that adds the uncertainty whatever beta is.
UcbGreaterByBonus(s1, s2, beta) ==
    RLt(RAdd(s2.p, s2.u), RAdd(s1.p, s1.u))

\* s1.p + beta * sqrt(s1.u) > s2.p + beta * sqrt(s2.u), decided without
\* taking roots (u >= 0, beta >= 0): with c = (s1.p - s2.p) / beta the
\* question is c + sqrt(s1.u) > sqrt(s2.u).
UcbGreater(s1, s2, beta) ==
    IF RIsZero(beta) THEN RLt(s2.p, s1.p)
    ELSE \E c \in {RDiv(RSub(s1.p, s2.p), beta)} :
            IF RIsZero(c) THEN RLt(s2.u, s1.u)
            ELSE IF RLt(R(0), c)
            THEN \E rr \in {RSub(RSub(s2.u, s1.u), RMul(c, c))} :
                    \/ RLt(rr, R(0))
                    \/ \E q \in {RDiv(rr, RMul(R(2), c))} :
                           RLt(<<q[1] * q[1], q[2] * q[2]>>, s1.u)
            ELSE \E ll \in {RSub(RSub(s1.u, s2.u), RMul(c, c))} :
                    /\ RLt(R(0), ll)
                    /\ \E q \in {RDiv(ll, RMul(R(-2), c))} :
                           RLt(s2.u, <<q[1] * q[1], q[2] * q[2]>>)

\* HybridBandit::get_actions: the enabled rows in row order
GetActions(tbl) == SelectSeq(Catalog, LAMBDA a : tbl[a].is_enabled)

\* HybridBandit::select_action_thompson: the first action whose sample is
\* the greatest; noise[a] is the random part of the sample of action a.
SelectActionThompson(tbl, x, noise) ==
    LET actions == GetActions(tbl)
        m == Len(actions)
    IN  IF m = 0 THEN Ok(None)
        ELSE IF \E i \in 1..m : ~LoadParams(tbl, actions[i]).ok
        THEN Err("Invalid params")
        ELSE LET sample(i) ==
                     ThompsonSample(LoadParams(tbl, actions[i]).v, x,
                                    noise[actions[i]])
                 best == CHOOSE i \in 1..m :
                             /\ \A j \in 1..m : j < i => RLt(sample(j), sample(i))
                             /\ \A j \in 1..m : j > i => ~RLt(sample(i), sample(j))
             IN  Ok(Some([action |-> actions[best], ucb_score |-> sample(best)]))

\* A sort that is not stable: of two actions with equal scores the one that
\* came later is put first.
SortByUcbUnstable(actions, sc, beta) ==
    LET before(a, b) ==
            \/ UcbGreater(a[2], b[2], beta)
            \/ (~UcbGreater(b[2], a[2], beta) /\ a[1] > b[1])
        rank(a) == Cardinality({b \in sc : b # a /\ before(b, a)}) + 1
    IN  [k \in 1..Len(actions) |->
            actions[(CHOOSE a \in sc : rank(a) = k)[1]]]

\* The sort of select_top_actions: sc holds <<i, score>> for the i-th enabled
\* action; sort_by on ucb_score descending is stable, so of two actions with
\* equal scores the one that came first stays first.
SortByUcb(actions, sc, beta) ==
    LET before(a, b) ==
            \/ UcbGreater(a[2], b[2], beta)
            \/ (~UcbGreater(b[2], a[2], beta) /\ a[1] < b[1])
        rank(a) == Cardinality({b \in sc : b # a /\ before(b, a)}) + 1
    IN  [k \in 1..Len(actions) |->
            actions[(CHOOSE a \in sc : rank(a) = k)[1]]]

\* HybridBandit::select_top_actions: Ok(names of the top n by UCB score),
\* Ok(<<>>) without enabled actions, or the first error of load_params.
SelectTopActions(tbl, x, n, beta) ==
    LET actions == GetActions(tbl)
        m == Len(actions)
    IN  IF m = 0 THEN Ok(<<>>)
        ELSE IF \E i \in 1..m : ~LoadParams(tbl, actions[i]).ok
        THEN Err("Invalid params")
        ELSE LET sc == {<<i, ScoreOf(LoadParams(tbl, actions[i]).v, x)>> : i \in 1..m}
             IN  Ok(SubSeq(SortByUcb(actions, sc, beta), 1, Min(n, m)))

\* IntelligenceAgent::map_event_to_action
map_event_to_action(event_type) ==
    CASE event_type \in {"study_session", "pomodoro"} -> Some("start_pomodoro")
      [] event_type = "workout" -> Some("do_workout")
      [] event_type = "checkin" -> Some("do_checkin")
      [] event_type = "skill_practice" -> Some("practice_skill")
      [] event_type = "assignment_completed" -> Some("tackle_assignment")
      [] event_type = "break" -> Some("take_break")
      [] event_type = "weekly_review" -> Some("weekly_review")
      [] OTHER -> None

\* -------------------------------------------------------------------- state
VARIABLES
    table,       \* agent_linear_bandit: action_name -> row
    recs,        \* agent_recommendations, in id order
    snapshots,   \* number of rows of agent_rich_context
    memEvents,   \* number of rows of agent_memory_events
    memTable,    \* LanceDB memory_events: None before the table is created,
                 \* else the outcome scores of its rows
    rewardLog,   \* agent_reward_log, in id order
    weightsRow,  \* agent_state['reward_weights'], None when the row is absent
    today,       \* Local::now().date_naive(): the parity of the day number
    pc,          \* where each client's command stands (its await points)
    loc,         \* the locals of each client's command
    ret,         \* what each client's last command returned
    calls,       \* commands issued so far
    saved,       \* history: the observations save_params has written
    permits,     \* EMBEDDING_TASK_SEMAPHORE: permits available
    waiters,     \* callers queued in acquire_owned, first in front
    task,        \* where each caller of run_embedding_task stands
    msr          \* a MultiScaleReward value

vars == <<table, recs, snapshots, memEvents, memTable, rewardLog, weightsRow, today,
          pc, loc, ret, calls, saved, permits, waiters, task, msr>>

dbVars == <<table, recs, snapshots, memEvents, memTable, rewardLog, weightsRow>>
procVars == <<pc, loc, ret, calls, saved>>
embedVars == <<permits, waiters, task>>

\* Concurrent clients of the tauri commands.
Procs == {"c1", "c2"}

BlankLoc ==
    [cmd |-> "", call |-> 0, n |-> 0, context_id |-> None, action |-> "",
     ctx |-> DefaultContext, beta |-> R(DEFAULT_BETA), capOk |-> TRUE,
     reward |-> R(0), accepted |-> FALSE, fscore |-> None,
     completed |-> FALSE, rating |-> None,
     before |-> None, after |-> None, table_exists |-> FALSE]

NoRet == [op |-> "", ok |-> TRUE, err |-> "", val |-> <<>>]
RetOk(op, val) == [op |-> op, ok |-> TRUE, err |-> "", val |-> val]
RetErr(op, e) == [op |-> op, ok |-> FALSE, err |-> e, val |-> <<>>]

\* RewardWeights::default
DefaultWeights ==
    [immediate |-> <<1, 5>>, daily |-> <<3, 10>>,
     weekly |-> <<3, 10>>, monthly |-> <<1, 5>>]

InitRow(enabled) ==
    [theta |-> None, precision_matrix |-> None, total_pulls |-> 0,
     total_reward |-> R(0), avg_reward |-> R(0), is_enabled |-> enabled]

EMBEDDING_MAX_CONCURRENT_TASKS == 2
\* Callers of run_embedding_task: Tasks are calls from elsewhere
\* (embed_user_event, search_similar_experiences), TaskOf(p) is the call that
\* a command of client p makes through add_event or search_similar.
Tasks == 1..NTasks
TaskOf(p) == IF p = "c1" THEN NTasks + 1 ELSE NTasks + 2
AllTasks == 1..(NTasks + Cardinality(Procs))

Init ==
    /\ \E en \in SUBSET Actions :
           table = [a \in Actions |-> InitRow(a \in en)]
    /\ recs = <<>>
    /\ snapshots = 0
    /\ memEvents = 0
    /\ memTable = None
    /\ rewardLog = <<>>
    /\ weightsRow \in {None, Some(DefaultWeights)}
    /\ today = 0
    /\ pc = [p \in Procs |-> "idle"]
    /\ loc = [p \in Procs |-> BlankLoc]
    /\ ret = [p \in Procs |-> NoRet]
    /\ calls = 0
    /\ saved = {}
    /\ permits = EMBEDDING_MAX_CONCURRENT_TASKS
    /\ waiters = <<>>
    /\ task = [t \in AllTasks |-> "idle"]
    /\ msr = None

\* --------------------------------------- IntelligenceAgent::get_recommendations
\* The similarity-weighted outcome of the similar experiences found.
AvgOutcome(similar) ==
    LET I == 1..Len(similar)
    IN  RDiv(SumOver([i \in I |-> RMul(similar[i].outcome, similar[i].similarity)], I),
             SumOver([i \in I |-> similar[i].similarity], I))

\* A loop that hands the snapshot to the first record_recommendation only.
RecordedRowsFirstOnly(chosen, context_id) ==
    [i \in 1..Len(chosen) |->
        [action |-> chosen[i],
         context_id |-> IF i = 1 THEN context_id ELSE None,
         was_accepted |-> None]]

\* The rows that the loop of get_recommendations writes with
\* record_recommendation: one for each selection kept, each with the
\* context_id that save_snapshot(..).await.ok() gave before the loop.
RecordedRows(chosen, context_id) ==
    [i \in 1..Len(chosen) |->
        [action |-> chosen[i],
         context_id |-> context_id,
         was_accepted |-> None]]

\* get_recommendations from the enrichment on: similar is what
\* get_similar_experiences(..).unwrap_or_default() gave.  Each recommendation
\* returned carries its action and, the first one, the similar experiences;
\* features records the vector given to select_top_actions and
\* history_x_current the interaction feature of that context, which
\* context.clone() copied from the captured one.
Recommend(p, n, context, context_id, similar) ==
    \E enriched \in {IF similar # <<>>
                     THEN [context EXCEPT ![SIMILAR_IDX] = AvgOutcome(similar)]
                     ELSE context} :
    \E sel \in {SelectTopActions(table, enriched, n + 2, R(DEFAULT_BETA))} :
        IF ~sel.ok
        THEN /\ ret' = [ret EXCEPT ![p] = RetErr("get_recommendations", sel.err)]
             /\ UNCHANGED recs
        ELSE IF sel.v = <<>>
        THEN /\ ret' = [ret EXCEPT ![p] =
                     RetErr("get_recommendations", "No actions available")]
             /\ UNCHANGED recs
        ELSE \E chosen \in {SubSeq(sel.v, 1, Min(n, Len(sel.v)))} :
                 /\ recs' = recs \o RecordedRows(chosen, context_id)
                 /\ ret' = [ret EXCEPT ![p] =
                        RetOk("get_recommendations",
                              [i \in 1..Len(chosen) |->
                                  [action |-> chosen[i],
                                   similar_experiences |->
                                       IF i = 1 THEN similar ELSE <<>>,
                                   features |-> enriched,
                                   history_x_current |->
                                       HistoryXCurrent(context)]])]

\* cap: what capture_context returns; snapOk: whether save_snapshot succeeds;
\* memOk: whether SemanticMemory::global() succeeds.  search_similar returns
\* at once while the table does not exist; else it enters run_embedding_task
\* and the command goes on in SearchDone.  When the call returns at once its
\* arguments and its context_id stay in loc.
GetRecommendations(p, n, cap, snapOk, memOk) ==
    /\ pc[p] = "idle"
    /\ calls < MaxCalls
    /\ calls' = calls + 1
    /\ UNCHANGED <<table, memEvents, memTable, rewardLog, weightsRow, today,
                   saved, permits, msr>>
    /\ IF ~cap.ok
       THEN /\ ret' = [ret EXCEPT ![p] = RetErr("get_recommendations", "capture_context")]
            /\ loc' = [loc EXCEPT ![p] =
                   [BlankLoc EXCEPT !.cmd = "get_recommendations",
                                    !.call = calls + 1,
                                    !.n = n]]
            /\ UNCHANGED <<recs, snapshots, pc, waiters, task>>
       ELSE LET context_id == IF snapOk THEN Some(snapshots + 1) ELSE None
            IN  /\ snapshots' = IF snapOk THEN snapshots + 1 ELSE snapshots
                /\ IF memOk /\ memTable.some
                   THEN /\ pc' = [pc EXCEPT ![p] = "search_similar"]
                        /\ loc' = [loc EXCEPT ![p] =
                               [BlankLoc EXCEPT
                                   !.cmd = "get_recommendations",
                                   !.call = calls + 1,
                                   !.n = n,
                                   !.context_id = context_id,
                                   !.ctx = cap.ctx]]
                        /\ task' = [task EXCEPT ![TaskOf(p)] = "waiting"]
                        /\ waiters' = Append(waiters, TaskOf(p))
                        /\ ret' = [ret EXCEPT ![p] = NoRet]
                        /\ UNCHANGED recs
                   ELSE /\ Recommend(p, n, cap.ctx, context_id, <<>>)
                        /\ loc' = [loc EXCEPT ![p] =
                               [BlankLoc EXCEPT
                                   !.cmd = "get_recommendations",
                                   !.call = calls + 1,
                                   !.n = n,
                                   !.context_id = context_id,
                                   !.ctx = cap.ctx]]
                        /\ UNCHANGED <<pc, waiters, task>>

\* A call of HybridBandit::select_top_actions(pool, context, n, Some(beta)):
\* it reads the table and returns; the arguments stay in loc.
SelectTop(p, x, n, beta) ==
    /\ pc[p] = "idle"
    /\ \E sel \in {SelectTopActions(table, x, n, beta)} :
          ret' = [ret EXCEPT ![p] =
                     IF sel.ok THEN RetOk("select_top_actions", sel.v)
                     ELSE RetErr("select_top_actions", sel.err)]
    /\ loc' = [loc EXCEPT ![p] =
           [BlankLoc EXCEPT !.cmd = "select_top_actions",
                            !.n = n, !.ctx = x, !.beta = beta]]
    /\ UNCHANGED <<dbVars, today, pc, calls, saved, embedVars, msr>>

\* A call of RewardEngine::compute_immediate_reward by itself: the arguments
\* stay in loc, the value is returned.
ComputeImmediate(p, acted_on, feedback_score, task_completed, satisfaction_rating) ==
    /\ pc[p] = "idle"
    /\ ret' = [ret EXCEPT ![p] =
           RetOk("compute_immediate_reward",
                 compute_immediate_reward(acted_on, feedback_score,
                                          task_completed, satisfaction_rating))]
    /\ loc' = [loc EXCEPT ![p] =
           [BlankLoc EXCEPT !.cmd = "compute_immediate_reward",
                            !.accepted = acted_on,
                            !.fscore = feedback_score,
                            !.completed = task_completed,
                            !.rating = satisfaction_rating]]
    /\ UNCHANGED <<dbVars, today, pc, calls, saved, embedVars, msr>>

\* A call of RichFeatureStore::capture_context whose queries all succeed:
\* the features derived from the clock and the store are returned.
CaptureContext(p, week, energy, prev_energy, pomodoros, week_study, target) ==
    /\ pc[p] = "idle"
    /\ ret' = [ret EXCEPT ![p] =
           RetOk("capture_context",
                 CapturedFeatures(week, energy, prev_energy, pomodoros,
                                  week_study, target))]
    /\ UNCHANGED <<dbVars, today, pc, loc, calls, saved, embedVars, msr>>

\* A call of HybridBandit::select_action_thompson(pool, context).
SelectThompson(p, x, noise) ==
    /\ pc[p] = "idle"
    /\ \E sel \in {SelectActionThompson(table, x, noise)} :
          ret' = [ret EXCEPT ![p] =
                     IF sel.ok THEN RetOk("select_action_thompson", sel.v)
                     ELSE RetErr("select_action_thompson", sel.err)]
    /\ loc' = [loc EXCEPT ![p] =
           [BlankLoc EXCEPT !.cmd = "select_action_thompson", !.ctx = x]]
    /\ UNCHANGED <<dbVars, today, pc, calls, saved, embedVars, msr>>

\* ------------------------------------------ IntelligenceAgent::record_feedback
\* The SELECT and the UPDATE of the recommendation row, then, with a row and
\* an outcome, capture_context().unwrap_or_default() before the bandit
\* update.
RecordFeedback(p, recommendation_id, accepted, feedback_score, outcome_score, cap) ==
    /\ pc[p] = "idle"
    /\ calls < MaxCalls
    /\ calls' = calls + 1
    /\ LET found == recommendation_id \in 1..Len(recs)
       IN  /\ recs' = IF found
                      THEN [recs EXCEPT ![recommendation_id].was_accepted = Some(accepted)]
                      ELSE recs
           /\ IF found /\ outcome_score.some
              THEN /\ pc' = [pc EXCEPT ![p] = "upd_load"]
                   /\ loc' = [loc EXCEPT ![p] =
                          [BlankLoc EXCEPT
                              !.cmd = "record_feedback",
                              !.call = calls + 1,
                              !.action = recs[recommendation_id].action,
                              !.ctx = IF cap.ok THEN cap.ctx ELSE DefaultContext,
                              !.capOk = cap.ok,
                              !.reward = outcome_score.v,
                              !.accepted = accepted,
                              !.fscore = feedback_score]]
                   /\ ret' = [ret EXCEPT ![p] = NoRet]
              ELSE /\ ret' = [ret EXCEPT ![p] = RetOk("record_feedback", <<>>)]
                   /\ UNCHANGED <<pc, loc>>
    /\ UNCHANGED <<table, snapshots, memEvents, memTable, rewardLog, weightsRow, today,
                   saved, embedVars, msr>>

\* ---------------------------------- IntelligenceAgent::record_action_completed
\* memOk: whether SemanticMemory::global() succeeds.  After the INSERT into
\* agent_memory_events the command calls add_event, which enters
\* run_embedding_task; the command goes on in AddEventDone.
RecordActionCompleted(p, action_type, outcome_score, memOk, cap) ==
    /\ pc[p] = "idle"
    /\ calls < MaxCalls
    /\ calls' = calls + 1
    /\ IF ~memOk
       THEN /\ ret' = [ret EXCEPT ![p] = RetErr("record_action_completed", "semantic memory")]
            /\ UNCHANGED <<pc, loc, memEvents, waiters, task>>
       ELSE IF ~cap.ok
       THEN /\ ret' = [ret EXCEPT ![p] = RetErr("record_action_completed", "capture_context")]
            /\ UNCHANGED <<pc, loc, memEvents, waiters, task>>
       ELSE /\ memEvents' = memEvents + 1
            /\ pc' = [pc EXCEPT ![p] = "add_event"]
            /\ loc' = [loc EXCEPT ![p] =
                   [BlankLoc EXCEPT
                       !.cmd = "record_action_completed",
                       !.call = calls + 1,
                       !.action = LET mapped == map_event_to_action(action_type)
                                  IN  IF mapped.some THEN mapped.v ELSE "",
                       !.ctx = cap.ctx,
                       !.capOk = cap.ok,
                       !.reward = outcome_score]]
            /\ task' = [task EXCEPT ![TaskOf(p)] = "waiting"]
            /\ waiters' = Append(waiters, TaskOf(p))
            /\ ret' = [ret EXCEPT ![p] = NoRet]
    /\ UNCHANGED <<table, recs, snapshots, memTable, rewardLog, weightsRow, today,
                   saved, permits, msr>>

\* ------------------------------------------------------ HybridBandit::update
\* A call of HybridBandit::update(pool, action_name, context, reward) by
\* itself; its three awaits follow.
BanditUpdate(p, action_name, x, reward) ==
    /\ pc[p] = "idle"
    /\ calls < MaxCalls
    /\ calls' = calls + 1
    /\ pc' = [pc EXCEPT ![p] = "upd_load"]
    /\ loc' = [loc EXCEPT ![p] =
           [BlankLoc EXCEPT !.cmd = "update", !.call = calls + 1,
                            !.action = action_name, !.ctx = x,
                            !.reward = reward]]
    /\ ret' = [ret EXCEPT ![p] = NoRet]
    /\ UNCHANGED <<dbVars, today, saved, embedVars, msr>>

\* First await: load_params.
UpdLoad(p) ==
    /\ pc[p] = "upd_load"
    /\ LET r == LoadParams(table, loc[p].action)
       IN  IF r.ok
           THEN /\ loc' = [loc EXCEPT ![p].before = Some(r.v)]
                /\ pc' = [pc EXCEPT ![p] = "upd_save"]
                /\ UNCHANGED ret
           ELSE /\ ret' = [ret EXCEPT ![p] = RetErr(loc[p].cmd, r.err)]
                /\ loc' = [loc EXCEPT ![p] = BlankLoc]
                /\ pc' = [pc EXCEPT ![p] = "idle"]
    /\ UNCHANGED <<dbVars, today, calls, saved, embedVars, msr>>

\* A save that inserts the row when the table has none of that name.
SaveParamsUpsert(tbl, action_name, params) ==
    [a \in DOMAIN tbl \cup {action_name} |->
        [IF a \in DOMAIN tbl THEN tbl[a] ELSE InitRow(TRUE) EXCEPT
            !.theta = IF a = action_name
                      THEN Some(ToBytes(params).theta) ELSE @,
            !.precision_matrix = IF a = action_name
                                 THEN Some(ToBytes(params).prec) ELSE @]]

\* HybridBandit::save_params: the UPDATE of theta and precision_matrix of the
\* row named action_name (no row, no effect).
SaveParams(tbl, action_name, params) ==
    IF action_name \in DOMAIN tbl
    THEN [tbl EXCEPT ![action_name].theta = Some(ToBytes(params).theta),
                     ![action_name].precision_matrix = Some(ToBytes(params).prec)]
    ELSE tbl

\* params.update(&features, reward), then the second await: save_params.
UpdSave(p) ==
    /\ pc[p] = "upd_save"
    /\ LET params == ParamsUpdate(loc[p].before.v, loc[p].ctx, loc[p].reward)
       IN  /\ table' = SaveParams(table, loc[p].action, params)
           /\ loc' = [loc EXCEPT ![p].after = Some(params)]
           /\ saved' = saved \cup
                  {[call |-> loc[p].call, action |-> loc[p].action,
                    x |-> loc[p].ctx, reward |-> loc[p].reward]}
    /\ pc' = [pc EXCEPT ![p] = "upd_stats"]
    /\ UNCHANGED <<recs, snapshots, memEvents, memTable, rewardLog, weightsRow, today,
                   ret, calls, embedVars, msr>>

\* The statistics UPDATE of HybridBandit::update.
UpdateStats(tbl, action_name, reward) ==
    IF action_name \in DOMAIN tbl
    THEN LET row == tbl[action_name]
         IN  [tbl EXCEPT
                 ![action_name].total_pulls = row.total_pulls + 1,
                 ![action_name].total_reward = RAdd(row.total_reward, reward),
                 ![action_name].avg_reward =
                     RDiv(RAdd(row.total_reward, reward), R(row.total_pulls + 1))]
    ELSE tbl

\* Third await: the statistics.  record_action_completed returns after it,
\* record_feedback goes on to log_reward.
UpdStats(p) ==
    /\ pc[p] = "upd_stats"
    /\ table' = UpdateStats(table, loc[p].action, loc[p].reward)
    /\ IF loc[p].cmd = "record_feedback"
       THEN /\ pc' = [pc EXCEPT ![p] = "log_reward"]
            /\ UNCHANGED <<loc, ret>>
       ELSE /\ pc' = [pc EXCEPT ![p] = "idle"]
            /\ loc' = [loc EXCEPT ![p] = BlankLoc]
            /\ ret' = [ret EXCEPT ![p] = RetOk(loc[p].cmd, <<>>)]
    /\ UNCHANGED <<recs, snapshots, memEvents, memTable, rewardLog, weightsRow, today,
                   calls, saved, embedVars, msr>>

\* Third await, failing: the statistics UPDATE returns an error, which
\* HybridBandit::update and its caller return with `?`; the parameters that
\* save_params wrote stay.
UpdStatsFail(p) ==
    /\ pc[p] = "upd_stats"
    /\ pc' = [pc EXCEPT ![p] = "idle"]
    /\ loc' = [loc EXCEPT ![p] = BlankLoc]
    /\ ret' = [ret EXCEPT ![p] = RetErr(loc[p].cmd, "database error")]
    /\ UNCHANGED <<dbVars, today, calls, saved, embedVars, msr>>

\* HybridBandit::log_reward: the row it inserts.  age is today minus the day
\* of the row's timestamp, MaxDay standing for MaxDay days or more (the
\* queries tell yesterday's rows from all others, nothing else).
NewRewardRow(action_name, context, immediate_reward) ==
    [action_name |-> action_name, context |-> context,
     reward_immediate |-> immediate_reward,
     reward_daily |-> None, reward_weekly |-> None, reward_monthly |-> None,
     reward_total |-> None, age |-> 0]

\* The end of record_feedback: compute_immediate_reward and log_reward.
LogReward(p) ==
    /\ pc[p] = "log_reward"
    /\ LET immediate_reward ==
               compute_immediate_reward(loc[p].accepted, loc[p].fscore,
                                        RLt(<<7, 10>>, loc[p].reward), None)
       IN  rewardLog' = Append(rewardLog,
               NewRewardRow(loc[p].action, loc[p].ctx, immediate_reward))
    /\ pc' = [pc EXCEPT ![p] = "idle"]
    /\ loc' = [loc EXCEPT ![p] = BlankLoc]
    /\ ret' = [ret EXCEPT ![p] = RetOk("record_feedback", <<>>)]
    /\ UNCHANGED <<table, recs, snapshots, memEvents, memTable, weightsRow, today,
                   calls, saved, embedVars, msr>>

\* Storage corruption: a stored blob loses its last byte.
CorruptBlob(a) ==
    /\ table[a].theta.some
    /\ table[a].theta.v.tail = 0
    /\ table' = [table EXCEPT ![a].theta =
           Some([words |-> SubSeq(table[a].theta.v.words, 1, FEATURE_DIM - 1),
                 tail |-> 7])]
    /\ UNCHANGED <<recs, snapshots, memEvents, memTable, rewardLog, weightsRow, today,
                   procVars, embedVars, msr>>

\* ------------------------------------------------- RewardEngine, maintenance
\* RewardEngine::compute_daily_reward from what the store holds for the date:
\* the Big 3 goals (count, completed), a check-in, the session minutes.
compute_daily_reward(big3_count, big3_done, had_checkin, study_mins) ==
    LET r1 == IF big3_count > 0 THEN Norm(big3_done, big3_count) ELSE R(0)
        w1 == IF big3_count > 0 THEN 2 ELSE 0
        r2 == RAdd(r1, IF had_checkin THEN R(1) ELSE R(0))
        study_reward ==
            IF study_mins >= 120 /\ study_mins <= 360 THEN R(1)
            ELSE IF study_mins > 0 /\ study_mins < 120 THEN Norm(study_mins, 120)
            ELSE IF study_mins > 360
            THEN LET d == RSub(R(1), Norm(study_mins - 360, 240))
                 IN  IF RLt(d, Half) THEN Half ELSE d
            ELSE R(0)
        r3 == RAdd(r2, study_reward)
        w3 == w1 + 2
    IN  IF w3 > 0 THEN RDiv(r3, R(w3)) ELSE Half

\* What the store may hold for one day.
DayData ==
    {[big3_count |-> 0, big3_done |-> 0, had_checkin |-> FALSE, study_mins |-> 0],
     [big3_count |-> 3, big3_done |-> 3, had_checkin |-> TRUE, study_mins |-> 240]}

\* RewardEngine::get_weights
GetWeights(row) == IF row.some THEN row.v ELSE DefaultWeights

\* An update_daily_rewards whose UPDATE lacks `AND reward_daily IS NULL`.
UpdateDailyRewardsOverwriting(log, daily_reward) ==
    [i \in 1..Len(log) |->
        IF log[i].age = 1
        THEN [log[i] EXCEPT !.reward_daily = Some(daily_reward)]
        ELSE log[i]]

\* RewardEngine::update_daily_rewards: rows logged yesterday and without a
\* daily reward get daily_reward.
UpdateDailyRewards(log, daily_reward) ==
    [i \in 1..Len(log) |->
        IF log[i].age = 1 /\ ~log[i].reward_daily.some
        THEN [log[i] EXCEPT !.reward_daily = Some(daily_reward)]
        ELSE log[i]]

Coalesce(opt, dflt) == IF opt.some THEN opt.v ELSE dflt

\* The value the UPDATE of finalize_rewards assigns to reward_total of one
\* row; SQLite yields NULL for a division by zero.
FinalTotal(row, w) ==
    LET num == RAdd(RAdd(RMul(w.immediate, row.reward_immediate),
                         RMul(w.daily, Coalesce(row.reward_daily, R(0)))),
                    RAdd(RMul(w.weekly, Coalesce(row.reward_weekly, R(0))),
                         RMul(w.monthly, Coalesce(row.reward_monthly, R(0)))))
        den == RAdd(RAdd(w.immediate,
                         IF row.reward_daily.some THEN w.daily ELSE R(0)),
                    RAdd(IF row.reward_weekly.some THEN w.weekly ELSE R(0),
                         IF row.reward_monthly.some THEN w.monthly ELSE R(0)))
    IN  IF RIsZero(den) THEN None ELSE Some(RDiv(num, den))

\* The WHERE clause of finalize_rewards.
FinalizeSelects(row) ==
    /\ ~row.reward_total.some
    /\ (row.reward_daily.some \/ row.reward_weekly.some)

\* RewardEngine::finalize_rewards
FinalizeRewards(log, w) ==
    [i \in 1..Len(log) |->
        IF FinalizeSelects(log[i])
        THEN [log[i] EXCEPT !.reward_total = FinalTotal(log[i], w)]
        ELSE log[i]]

\* commands::run_agent_maintenance, IntelligenceAgent::daily_maintenance: the
\* daily rewards of yesterday, then the finalization; the neural-mode check
\* that follows only reads.  d: what the store holds for yesterday.
DailyMaintenance(p, d) ==
    /\ pc[p] = "idle"
    /\ rewardLog' = FinalizeRewards(
           UpdateDailyRewards(rewardLog,
               compute_daily_reward(d.big3_count, d.big3_done,
                                    d.had_checkin, d.study_mins)),
           GetWeights(weightsRow))
    /\ ret' = [ret EXCEPT ![p] = RetOk("run_agent_maintenance", <<>>)]
    /\ UNCHANGED <<table, recs, snapshots, memEvents, memTable, weightsRow, today,
                   pc, loc, calls, saved, embedVars, msr>>

\* daily_maintenance ending in an error: update_daily_rewards fails before or
\* in its UPDATE and nothing is written, or finalize_rewards fails after the
\* daily rewards were written.
MaintenanceFailures == {"update_daily_rewards", "finalize_rewards"}

DailyMaintenanceFails(p, d, at) ==
    /\ pc[p] = "idle"
    /\ rewardLog' =
           IF at = "update_daily_rewards" THEN rewardLog
           ELSE UpdateDailyRewards(rewardLog,
                    compute_daily_reward(d.big3_count, d.big3_done,
                                         d.had_checkin, d.study_mins))
    /\ ret' = [ret EXCEPT ![p] = RetErr("run_agent_maintenance", at)]
    /\ UNCHANGED <<table, recs, snapshots, memEvents, memTable, weightsRow, today,
                   pc, loc, calls, saved, embedVars, msr>>

\* The calendar day changes: every row is one day older.
Tick ==
    /\ today' = 1 - today
    /\ rewardLog' = [i \in 1..Len(rewardLog) |->
           [rewardLog[i] EXCEPT !.age = Min(rewardLog[i].age + 1, MaxDay)]]
    /\ UNCHANGED <<table, recs, snapshots, memEvents, memTable, weightsRow,
                   procVars, embedVars, msr>>

\* A set_reward_weights without the validation.
WeightsUnchecked(w) == TRUE

\* commands::intelligence::set_reward_weights: the sum must be within 0.01 of
\* 1.0; the UPDATE changes the row only if there is one.
WeightsValid(w) ==
    LET total == RAdd(RAdd(w.immediate, w.daily), RAdd(w.weekly, w.monthly))
        diff == RSub(total, R(1))
        absd == IF RLt(diff, R(0)) THEN RNeg(diff) ELSE diff
    IN  ~RLt(<<1, 100>>, absd)

WeightChoices ==
    {DefaultWeights,
     [immediate |-> R(0), daily |-> R(1), weekly |-> R(0), monthly |-> R(0)],
     [immediate |-> R(0), daily |-> R(0), weekly |-> Half, monthly |-> Half],
     [immediate |-> Half, daily |-> Half, weekly |-> Half, monthly |-> Half]}

SetRewardWeights(p, w) ==
    /\ pc[p] = "idle"
    /\ IF WeightsValid(w)
       THEN /\ weightsRow' = IF weightsRow.some THEN Some(w) ELSE weightsRow
            /\ ret' = [ret EXCEPT ![p] = RetOk("set_reward_weights", <<>>)]
       ELSE /\ ret' = [ret EXCEPT ![p] =
                   RetErr("set_reward_weights", "Weights must sum to 1.0")]
            /\ UNCHANGED weightsRow
    /\ UNCHANGED <<table, recs, snapshots, memEvents, memTable, rewardLog, today,
                   pc, loc, calls, saved, embedVars, msr>>

\* ---------------------------------------------------------- MultiScaleReward
\* f32 division: a zero divisor gives NaN (<<0, 0>>) or an infinity
\* (<<1, 0>>, <<-1, 0>>).
FDiv(a, b) ==
    IF RIsZero(b)
    THEN (IF a[1] = 0 THEN <<0, 0>> ELSE IF a[1] > 0 THEN <<1, 0>> ELSE <<-1, 0>>)
    ELSE RDiv(a, b)

\* MultiScaleReward::new_immediate
new_immediate(immediate) ==
    [immediate |-> immediate, daily |-> None, weekly |-> None,
     monthly |-> None, total |-> None, weights |-> DefaultWeights]

\* compute_total with a missing horizon counted as zero: the divisor is the
\* sum of all four weights.
compute_total_diluted(m) ==
    LET opt(o) == IF o.some THEN o.v ELSE R(0)
        t == RAdd(RAdd(RMul(m.weights.immediate, m.immediate),
                       RMul(m.weights.daily, opt(m.daily))),
                  RAdd(RMul(m.weights.weekly, opt(m.weekly)),
                       RMul(m.weights.monthly, opt(m.monthly))))
        s == RAdd(RAdd(m.weights.immediate, m.weights.daily),
                  RAdd(m.weights.weekly, m.weights.monthly))
    IN  [m EXCEPT !.total = Some(FDiv(t, s))]

\* MultiScaleReward::compute_total
compute_total(m) ==
    LET t1 == RMul(m.weights.immediate, m.immediate)
        s1 == m.weights.immediate
        t2 == IF m.daily.some THEN RAdd(t1, RMul(m.weights.daily, m.daily.v)) ELSE t1
        s2 == IF m.daily.some THEN RAdd(s1, m.weights.daily) ELSE s1
        t3 == IF m.weekly.some THEN RAdd(t2, RMul(m.weights.weekly, m.weekly.v)) ELSE t2
        s3 == IF m.weekly.some THEN RAdd(s2, m.weights.weekly) ELSE s2
        t4 == IF m.monthly.some THEN RAdd(t3, RMul(m.weights.monthly, m.monthly.v)) ELSE t3
        s4 == IF m.monthly.some THEN RAdd(s3, m.weights.monthly) ELSE s3
    IN  [m EXCEPT !.total = Some(FDiv(t4, s4))]

\* A MultiScaleReward is built by new_immediate and filled through its public
\* fields; compute_total then blends it.
RewardValues == {Half, R(1)}

MsrNew(immediate) ==
    /\ msr' = Some(new_immediate(immediate))
    /\ UNCHANGED <<dbVars, today, procVars, embedVars>>

MsrSetDaily(v) ==
    /\ msr.some /\ ~msr.v.total.some /\ ~msr.v.daily.some
    /\ msr' = Some([msr.v EXCEPT !.daily = Some(v)])
    /\ UNCHANGED <<dbVars, today, procVars, embedVars>>

MsrSetWeekly(v) ==
    /\ msr.some /\ ~msr.v.total.some /\ ~msr.v.weekly.some
    /\ msr' = Some([msr.v EXCEPT !.weekly = Some(v)])
    /\ UNCHANGED <<dbVars, today, procVars, embedVars>>

MsrSetMonthly(v) ==
    /\ msr.some /\ ~msr.v.total.some /\ ~msr.v.monthly.some
    /\ msr' = Some([msr.v EXCEPT !.monthly = Some(v)])
    /\ UNCHANGED <<dbVars, today, procVars, embedVars>>

MsrSetWeights(w) ==
    /\ msr.some /\ ~msr.v.total.some
    /\ WeightsValid(w)
    /\ msr' = Some([msr.v EXCEPT !.weights = w])
    /\ UNCHANGED <<dbVars, today, procVars, embedVars>>

MsrComputeTotal ==
    /\ msr.some /\ ~msr.v.total.some
    /\ msr' = Some(compute_total(msr.v))
    /\ UNCHANGED <<dbVars, today, procVars, embedVars>>

\* ------------------------------------------------------- run_embedding_task
\* A caller (add_event, search_similar, embed_user_event) enters
\* acquire_owned().await; the semaphore serves its queue in order.
EmbedCall(t) ==
    /\ task[t] = "idle"
    /\ task' = [task EXCEPT ![t] = "waiting"]
    /\ waiters' = Append(waiters, t)
    /\ UNCHANGED <<dbVars, today, procVars, permits, msr>>

\* A semaphore that hands out permits it does not have.
MayAcquireWithoutPermit(t) == waiters # <<>> /\ waiters[1] = t

\* Whether the caller at the head of the queue may take a permit.
MayAcquire(t) == permits > 0 /\ waiters # <<>> /\ waiters[1] = t

\* The permit is taken and moved into the closure given to spawn_blocking.
EmbedAcquire(t) ==
    /\ task[t] = "waiting"
    /\ MayAcquire(t)
    /\ permits' = permits - 1
    /\ waiters' = Tail(waiters)
    /\ task' = [task EXCEPT ![t] = "spawned"]
    /\ UNCHANGED <<dbVars, today, procVars, msr>>

\* A blocking thread starts the closure: the embedding computation runs.
EmbedStart(t) ==
    /\ task[t] = "spawned"
    /\ task' = [task EXCEPT ![t] = "running"]
    /\ UNCHANGED <<dbVars, today, procVars, permits, waiters, msr>>

\* A closure that ends without dropping its permit.
EmbedFinishKeepingPermit(t) ==
    /\ task[t] = "running"
    /\ task' = [task EXCEPT ![t] = "idle"]
    /\ UNCHANGED <<dbVars, today, procVars, permits, waiters, msr>>

\* The closure ends (Ok, Err or a panic): _permit is dropped, the caller's
\* handle.await returns.
EmbedFinish(t) ==
    /\ task[t] = "running"
    /\ permits' = permits + 1
    /\ task' = [task EXCEPT ![t] = "idle"]
    /\ UNCHANGED <<dbVars, today, procVars, waiters, msr>>

\* ------------------------------- commands resumed after run_embedding_task
\* What search_similar can give once its embedding closure has run: an error
\* of the closure (EmbeddingService::global or embed), an error of the vector
\* search, or the experiences found among the rows of the table.
SearchOutcomes ==
    {Err("Embedding task failed"), Err("Failed to execute search")}
        \cup {Ok(<<[outcome_score |-> Some(o), similarity |-> Half]>>) :
                  o \in IF memTable.some THEN memTable.v ELSE {}}

\* get_similar_experiences: the PastExperience of each result found.
PastExperiences(results) ==
    [i \in 1..Len(results) |->
        [outcome |-> Coalesce(results[i].outcome_score, Half),
         similarity |-> results[i].similarity]]

\* get_recommendations with `?` on get_similar_experiences: a failure of the
\* memory ends the command with that error.
SearchDonePropagating(p, sr) ==
    /\ pc[p] = "search_similar"
    /\ task[TaskOf(p)] = "running"
    /\ permits' = permits + 1
    /\ task' = [task EXCEPT ![TaskOf(p)] = "idle"]
    /\ pc' = [pc EXCEPT ![p] = "idle"]
    /\ loc' = [loc EXCEPT ![p] = BlankLoc]
    /\ IF sr.ok
       THEN Recommend(p, loc[p].n, loc[p].ctx, loc[p].context_id,
                      PastExperiences(sr.v))
       ELSE /\ ret' = [ret EXCEPT ![p] = RetErr("get_recommendations", sr.err)]
            /\ UNCHANGED recs
    /\ UNCHANGED <<table, snapshots, memEvents, memTable, rewardLog, weightsRow,
                   today, calls, saved, waiters, msr>>

\* get_recommendations resumes: the closure of search_similar ends and drops
\* its permit, get_similar_experiences returns sr, and the command runs to
\* its end.
SearchDone(p, sr) ==
    /\ pc[p] = "search_similar"
    /\ task[TaskOf(p)] = "running"
    /\ permits' = permits + 1
    /\ task' = [task EXCEPT ![TaskOf(p)] = "idle"]
    /\ pc' = [pc EXCEPT ![p] = "idle"]
    /\ loc' = [loc EXCEPT ![p] = BlankLoc]
    /\ Recommend(p, loc[p].n, loc[p].ctx, loc[p].context_id,
                 IF sr.ok THEN PastExperiences(sr.v) ELSE <<>>)
    /\ UNCHANGED <<table, snapshots, memEvents, memTable, rewardLog, weightsRow,
                   today, calls, saved, waiters, msr>>

\* record_action_completed resumes: the closure of add_event ends and drops
\* its permit; added tells whether add_event stored the event (its result is
\* dropped).  With a mapped action HybridBandit::update follows.
AddEventDone(p, added) ==
    /\ pc[p] = "add_event"
    /\ task[TaskOf(p)] = "running"
    /\ permits' = permits + 1
    /\ task' = [task EXCEPT ![TaskOf(p)] = "idle"]
    /\ memTable' = IF added
                   THEN Some((IF memTable.some THEN memTable.v ELSE {})
                                 \cup {loc[p].reward})
                   ELSE memTable
    /\ IF loc[p].action # ""
       THEN /\ pc' = [pc EXCEPT ![p] = "upd_load"]
            /\ UNCHANGED <<loc, ret>>
       ELSE /\ pc' = [pc EXCEPT ![p] = "idle"]
            /\ loc' = [loc EXCEPT ![p] = BlankLoc]
            /\ ret' = [ret EXCEPT ![p] = RetOk("record_action_completed", <<>>)]
    /\ UNCHANGED <<table, recs, snapshots, memEvents, rewardLog, weightsRow,
                   today, calls, saved, waiters, msr>>

\* ----------------------------------- SemanticMemory::add_event_with_embedding
\* A call with a computed embedding; outcome_score stands for the event.
AddEventWithEmbedding(p, outcome_score) ==
    /\ pc[p] = "idle"
    /\ calls < MaxCalls
    /\ calls' = calls + 1
    /\ pc' = [pc EXCEPT ![p] = "add_check"]
    /\ loc' = [loc EXCEPT ![p] =
           [BlankLoc EXCEPT !.cmd = "add_event_with_embedding",
                            !.call = calls + 1,
                            !.reward = outcome_score]]
    /\ ret' = [ret EXCEPT ![p] = NoRet]
    /\ UNCHANGED <<dbVars, today, saved, embedVars, msr>>

\* table_exists = self.table.read().await.is_some(); the guard is dropped.
AddCheck(p) ==
    /\ pc[p] = "add_check"
    /\ loc' = [loc EXCEPT ![p].table_exists = memTable.some]
    /\ pc' = [pc EXCEPT ![p] = "add_write"]
    /\ UNCHANGED <<dbVars, today, ret, calls, saved, embedVars, msr>>

\* The write that follows the check, the arguments staying in loc: without
\* table_exists, create_table("memory_events") with the event as its first
\* row, which LanceDB (mode Create) refuses when the table exists; else
\* table.add.
AddWrite(p) ==
    /\ pc[p] = "add_write"
    /\ pc' = [pc EXCEPT ![p] = "idle"]
    /\ IF ~loc[p].table_exists /\ memTable.some
       THEN /\ ret' = [ret EXCEPT ![p] =
                    RetErr("add_event_with_embedding", "Failed to create table")]
            /\ UNCHANGED memTable
       ELSE /\ memTable' = Some((IF memTable.some THEN memTable.v ELSE {})
                                   \cup {loc[p].reward})
            /\ ret' = [ret EXCEPT ![p] =
                    RetOk("add_event_with_embedding", <<>>)]
    /\ UNCHANGED <<table, recs, snapshots, memEvents, rewardLog, weightsRow,
                   today, loc, calls, saved, embedVars, msr>>

\* ------------------------------ SemanticMemory::get_similar_context_outcomes
\* The part after search_similar: (0.5, []) without results, else the
\* similarity-weighted average of the outcome scores present.
ContextOutcomes(results) ==
    IF results = <<>> THEN <<Half, <<>>>>
    ELSE LET I == {i \in 1..Len(results) : results[i].outcome_score.some}
             weighted_sum ==
                 SumOver([i \in I |-> RMul(results[i].outcome_score.v,
                                           results[i].similarity)], I)
             weight_total == SumOver([i \in I |-> results[i].similarity], I)
         IN  <<IF RLt(R(0), weight_total)
               THEN RDiv(weighted_sum, weight_total) ELSE Half,
               results>>

\* get_similar_context_outcomes whose search computes the query embedding
\* before it looks at the table.
GetSimilarContextOutcomesEmbedFirst(p) ==
    /\ pc[p] = "idle"
    /\ calls < MaxCalls
    /\ calls' = calls + 1
    /\ pc' = [pc EXCEPT ![p] = "context_outcomes"]
    /\ task' = [task EXCEPT ![TaskOf(p)] = "waiting"]
    /\ waiters' = Append(waiters, TaskOf(p))
    /\ ret' = [ret EXCEPT ![p] = NoRet]
    /\ UNCHANGED <<dbVars, today, loc, saved, permits, msr>>

\* A call of get_similar_context_outcomes on the global memory: search_similar
\* returns no result at once while the table does not exist, else it enters
\* run_embedding_task and the call goes on in ContextOutcomesDone.
GetSimilarContextOutcomes(p) ==
    /\ pc[p] = "idle"
    /\ calls < MaxCalls
    /\ calls' = calls + 1
    /\ IF memTable.some
       THEN /\ pc' = [pc EXCEPT ![p] = "context_outcomes"]
            /\ task' = [task EXCEPT ![TaskOf(p)] = "waiting"]
            /\ waiters' = Append(waiters, TaskOf(p))
            /\ ret' = [ret EXCEPT ![p] = NoRet]
       ELSE /\ ret' = [ret EXCEPT ![p] =
                   RetOk("get_similar_context_outcomes", ContextOutcomes(<<>>))]
            /\ UNCHANGED <<pc, task, waiters>>
    /\ UNCHANGED <<dbVars, today, loc, saved, permits, msr>>

\* The closure of search_similar ends; an error of search_similar is returned
\* as it is.
ContextOutcomesDone(p, sr) ==
    /\ pc[p] = "context_outcomes"
    /\ task[TaskOf(p)] = "running"
    /\ permits' = permits + 1
    /\ task' = [task EXCEPT ![TaskOf(p)] = "idle"]
    /\ pc' = [pc EXCEPT ![p] = "idle"]
    /\ ret' = [ret EXCEPT ![p] =
           IF sr.ok
           THEN RetOk("get_similar_context_outcomes", ContextOutcomes(sr.v))
           ELSE RetErr("get_similar_context_outcomes", sr.err)]
    /\ UNCHANGED <<dbVars, today, loc, calls, saved, waiters, msr>>

\* The embedding call of a command of client p, from the permit to the end
\* of the closure.
ClientEmbed(p) ==
    \/ EmbedAcquire(TaskOf(p))
    \/ EmbedStart(TaskOf(p))
    \/ \E sr \in SearchOutcomes : SearchDone(p, sr)
    \/ \E added \in BOOLEAN : AddEventDone(p, added)

\* ----------------------------------------------------------- specifications
NoneOrSome(S) == {None} \cup {Some(v) : v \in S}
Outcomes == {R(0), R(1)}
FeedbackScores == {1}
EventTypes == {"workout", "note"}
RecCounts == {1, 2}

Update(p) == UpdLoad(p) \/ UpdSave(p) \/ UpdStats(p) \/ LogReward(p)

\* The agent's commands, issued by one client, one after the other.
Next ==
    \/ \E n \in RecCounts, cap \in CaptureOutcomes, memOk \in BOOLEAN :
          GetRecommendations("c1", n, cap, TRUE, memOk)
    \/ \E id \in 1..(Len(recs) + 1), accepted \in BOOLEAN,
          fs \in NoneOrSome(FeedbackScores), o \in NoneOrSome(Outcomes),
          cap \in CaptureOutcomes :
          RecordFeedback("c1", id, accepted, fs, o, cap)
    \/ \E et \in EventTypes, o \in Outcomes, memOk \in BOOLEAN,
          cap \in CaptureOutcomes :
          RecordActionCompleted("c1", et, o, memOk, cap)
    \/ ClientEmbed("c1")
    \/ Update("c1")
    \/ \E a \in Actions : CorruptBlob(a)

Spec == Init /\ [][Next]_vars

\* Two clients whose record_action_completed commands overlap.
ConcNext ==
    \/ \E p \in Procs, et \in EventTypes,
          cap \in {c \in CaptureOutcomes : c.ok} :
          RecordActionCompleted(p, et, R(1), TRUE, cap)
    \/ \E p \in Procs : EmbedAcquire(TaskOf(p))
    \/ \E p \in Procs : EmbedStart(TaskOf(p))
    \/ \E p \in Procs, added \in BOOLEAN : AddEventDone(p, added)
    \/ \E p \in Procs : UpdLoad(p)
    \/ \E p \in Procs : UpdSave(p)
    \/ \E p \in Procs : UpdStats(p)

ConcSpec == Init /\ [][ConcNext]_vars

\* The reward log through the days: one client, maintenance, the weights.
Captured == [ok |-> TRUE, ctx |-> ContextOf(R(1))]

RewardInit ==
    /\ Init
    /\ \A a \in Actions : table[a].is_enabled

RewardNext ==
    \/ GetRecommendations("c1", 1, Captured, TRUE, TRUE)
    \/ \E id \in 1..Len(recs), accepted \in BOOLEAN :
          RecordFeedback("c1", id, accepted, None, Some(R(1)), Captured)
    \/ Update("c1")
    \/ Tick
    \/ \E d \in DayData : DailyMaintenance("c1", d)
    \/ \E w \in WeightChoices : SetRewardWeights("c1", w)

RewardSpec == RewardInit /\ [][RewardNext]_vars

\* The maintenance is run every day: a day ends only when the maintenance
\* has been run, that is, when running it again would change no row.
MaintenanceDone ==
    \A d \in DayData :
        FinalizeRewards(
            UpdateDailyRewards(rewardLog,
                compute_daily_reward(d.big3_count, d.big3_done,
                                     d.had_checkin, d.study_mins)),
            GetWeights(weightsRow)) = rewardLog

NightlyTick == MaintenanceDone /\ Tick

FairRewardNext ==
    \/ GetRecommendations("c1", 1, Captured, TRUE, TRUE)
    \/ \E id \in 1..Len(recs), accepted \in BOOLEAN :
          RecordFeedback("c1", id, accepted, None, Some(R(1)), Captured)
    \/ Update("c1")
    \/ NightlyTick
    \/ \E d \in DayData : DailyMaintenance("c1", d)
    \/ \E w \in WeightChoices : SetRewardWeights("c1", w)

\* Days keep ending, the maintenance is run again and again, and a command
\* in progress runs to its end.
FairRewardSpec ==
    /\ RewardInit
    /\ [][FairRewardNext]_vars
    /\ SF_vars(NightlyTick)
    /\ WF_vars(\E d \in DayData : DailyMaintenance("c1", d))
    /\ WF_vars(Update("c1"))

MsrNext ==
    \/ \E v \in RewardValues \cup {R(0)} : MsrNew(v)
    \/ \E v \in RewardValues : MsrSetDaily(v)
    \/ \E v \in RewardValues : MsrSetWeekly(v)
    \/ \E v \in RewardValues : MsrSetMonthly(v)
    \/ \E w \in WeightChoices : MsrSetWeights(w)
    \/ MsrComputeTotal

\* MultiScaleReward values live in memory and share no state with the
\* reward log: each of the two is explored with the other at rest.
BlendNext ==
    \/ (~msr.some /\ RewardNext)
    \/ (calls = 0 /\ today = 0 /\ ret = [p \in Procs |-> NoRet] /\ MsrNext)

BlendSpec == RewardInit /\ [][BlendNext]_vars

EmbedNext ==
    \E t \in Tasks : EmbedCall(t) \/ EmbedAcquire(t) \/ EmbedStart(t) \/ EmbedFinish(t)

EmbedSpec == Init /\ [][EmbedNext]_vars

\* The same under the scheduling of tokio: the semaphore wakes the caller at
\* the head of its queue when a permit is free, the blocking pool starts
\* every closure given to spawn_blocking, and the closure ends.
FairEmbedSpec ==
    /\ Init
    /\ [][EmbedNext]_vars
    /\ \A t \in Tasks :
          /\ WF_vars(EmbedAcquire(t))
          /\ WF_vars(EmbedStart(t))
          /\ WF_vars(EmbedFinish(t))

\* The commands of one client while other callers of run_embedding_task
\* come and go.
AsyncNext ==
    \/ EmbedNext
    \/ \E et \in EventTypes : RecordActionCompleted("c1", et, R(1), TRUE, Captured)
    \/ GetRecommendations("c1", 1, Captured, TRUE, TRUE)
    \/ \E id \in 1..Len(recs) :
          RecordFeedback("c1", id, TRUE, None, Some(R(1)), Captured)
    \/ ClientEmbed("c1")
    \/ Update("c1")

AsyncSpec == RewardInit /\ [][AsyncNext]_vars

\* The semantic memory in use: events are recorded, recommendations asked
\* for, and the memory, the embedding or the search may fail.
MemoryNext ==
    \/ \E et \in EventTypes, o \in Outcomes :
          RecordActionCompleted("c1", et, o, TRUE, Captured)
    \/ \E n \in RecCounts, memOk \in BOOLEAN :
          GetRecommendations("c1", n, Captured, TRUE, memOk)
    \/ GetSimilarContextOutcomes("c1")
    \/ \E sr \in SearchOutcomes : ContextOutcomesDone("c1", sr)
    \/ ClientEmbed("c1")
    \/ UpdLoad("c1") \/ UpdSave("c1") \/ UpdStats("c1")

MemorySpec == RewardInit /\ [][MemoryNext]_vars

\* Selections between updates: any subset of the catalog is enabled, one
\* event of each mapped type is recorded at most (its embedding fails, which
\* record_action_completed ignores), and select_top_actions is called on the
\* captured context with every n up to the size of the catalog, with and
\* without exploration.
SelectEvents == {"pomodoro", "workout", "checkin"}
SelectContexts == {Captured.ctx}
Betas == {R(0), R(DEFAULT_BETA)}

SelectNext ==
    \/ \E x \in SelectContexts, n \in 0..Len(Catalog), beta \in Betas :
          SelectTop("c1", x, n, beta)
    \/ \E et \in SelectEvents, o \in Outcomes :
          /\ table[map_event_to_action(et).v].total_pulls = 0
          /\ RecordActionCompleted("c1", et, o, TRUE, Captured)
    \/ EmbedAcquire(TaskOf("c1"))
    \/ EmbedStart(TaskOf("c1"))
    \/ AddEventDone("c1", FALSE)
    \/ UpdLoad("c1") \/ UpdSave("c1") \/ UpdStats("c1")

SelectSpec == Init /\ [][SelectNext]_vars

\* Updates and selections on one context whose features are all 0.5, every
\* action enabled and updated once at most.
AllHalf == [i \in Idx |-> Half]

GreedyNext ==
    \/ \E n \in 0..Len(Catalog), beta \in Betas :
          SelectTop("c1", AllHalf, n, beta)
    \/ \E a \in Actions, reward \in Outcomes :
          /\ table[a].total_pulls = 0
          /\ BanditUpdate("c1", a, AllHalf, reward)
    \/ UpdLoad("c1") \/ UpdSave("c1") \/ UpdStats("c1")

GreedySpec == RewardInit /\ [][GreedyNext]_vars

\* One update of a fresh model: update is called once, for any action, on a
\* context whose features are drawn from FeatureValues.
FeatureValues == {R(-1), R(0), Half, R(1)}
TestContexts == [Idx -> FeatureValues]

FreshNext ==
    \/ \E a \in Actions, x \in TestContexts, reward \in Outcomes :
          /\ \A b \in Actions : table[b].total_pulls = 0
          /\ BanditUpdate("c1", a, x, reward)
    \/ UpdLoad("c1") \/ UpdSave("c1") \/ UpdStats("c1")

FreshSpec == RewardInit /\ [][FreshNext]_vars

\* One client calls update, once at most for an action of the catalog and
\* also for an action name the table has no row of, while the other selects
\* and asks for recommendations.
AbsentAction == "not_in_catalog"

FrameNext ==
    \/ \E a \in Actions \cup {AbsentAction} :
          /\ a \in DOMAIN table => table[a].total_pulls = 0
          /\ BanditUpdate("c1", a, Captured.ctx, R(1))
    \/ \E n \in {1, Len(Catalog)} :
          SelectTop("c2", Captured.ctx, n, R(DEFAULT_BETA))
    \/ GetRecommendations("c2", 1, Captured, TRUE, FALSE)
    \/ UpdLoad("c1") \/ UpdSave("c1") \/ UpdStats("c1")

FrameSpec == RewardInit /\ [][FrameNext]_vars

\* The reward log under weights set again and again: the weights given to
\* set_reward_weights also sum to 1.005 (inside the tolerance), to 0.98 and
\* 1.02 (outside), and to 1.0 with a negative weight.
WeightInputs ==
    {[immediate |-> Norm(1, 4), daily |-> Norm(1, 4),
      weekly |-> Norm(1, 4), monthly |-> Norm(51, 200)],
     [immediate |-> Norm(1, 4), daily |-> Norm(1, 4),
      weekly |-> Norm(1, 4), monthly |-> Norm(23, 100)],
     [immediate |-> Norm(1, 4), daily |-> Norm(1, 4),
      weekly |-> Norm(1, 4), monthly |-> Norm(27, 100)],
     [immediate |-> R(2), daily |-> R(-1), weekly |-> R(0), monthly |-> R(0)]}

WeightsNext ==
    \/ GetRecommendations("c1", 1, Captured, TRUE, TRUE)
    \/ \E id \in 1..Len(recs) :
          RecordFeedback("c1", id, TRUE, None, Some(R(1)), Captured)
    \/ Update("c1")
    \/ Tick
    \/ \E d \in DayData : DailyMaintenance("c1", d)
    \/ \E w \in WeightInputs : SetRewardWeights("c1", w)

WeightsSpec == RewardInit /\ [][WeightsNext]_vars

\* compute_immediate_reward on feedback scores -1, 0, 1 and satisfaction
\* ratings 1 to 5, given or not.
ScoreValues == {-1, 0, 1}
RatingValues == 1..5

ImmediateNext ==
    \E acted_on \in BOOLEAN, fs \in NoneOrSome(ScoreValues),
       task_completed \in BOOLEAN, sr \in NoneOrSome(RatingValues) :
        ComputeImmediate("c1", acted_on, fs, task_completed, sr)

ImmediateSpec == RewardInit /\ [][ImmediateNext]_vars

\* record_recommendation_feedback with any feedback score: the command
\* takes an Option<i32> and hands it on as it is.
ScoreInputs == {-3, -1, 0, 1, 3}

FeedbackNext ==
    \/ GetRecommendations("c1", 1, Captured, TRUE, TRUE)
    \/ \E id \in 1..Len(recs), accepted \in BOOLEAN,
          fs \in NoneOrSome(ScoreInputs) :
          RecordFeedback("c1", id, accepted, fs, Some(R(1)), Captured)
    \/ Update("c1")

FeedbackSpec == RewardInit /\ [][FeedbackNext]_vars

\* capture_context over clocks and stores: ISO weeks 1, 52 and 53, check-in
\* energies inside and outside 1..10, up to 41 study hours in the week.
IsoWeeks == {1, 52, 53}
EnergyInputs == {1, 10, 11}
PomodoroCounts == {0, 13}
WeekStudyMinutes == {0, 1200, 2460}
TargetHours == {0, 10}

CaptureNext ==
    \E week \in IsoWeeks, energy \in NoneOrSome(EnergyInputs),
       prev_energy \in NoneOrSome(EnergyInputs), pomodoros \in PomodoroCounts,
       week_study \in WeekStudyMinutes, target \in TargetHours :
        CaptureContext("c1", week, energy, prev_energy, pomodoros,
                       week_study, target)

CaptureSpec == RewardInit /\ [][CaptureNext]_vars

\* Stores whose rows hold parameters of the right lengths that are not
\* posteriors: a zero precision matrix (no inverse) and an indefinite one
\* (an inverse without Cholesky factor), besides rows never written.
ZeroPrecision == [mu |-> Zeros, precision |-> MScale(Identity, R(0))]
IndefinitePrecision ==
    [mu |-> Zeros,
     precision |-> [i \in Idx |-> [j \in Idx |->
                       IF i # j THEN R(0) ELSE IF i = 2 THEN R(-1) ELSE R(1)]]]

StoredRow(params) ==
    [InitRow(TRUE) EXCEPT !.theta = Some(ToBytes(params).theta),
                          !.precision_matrix = Some(ToBytes(params).prec)]

DegenerateRows ==
    {InitRow(TRUE), StoredRow(ZeroPrecision), StoredRow(IndefinitePrecision)}

\* The state after construction over a store whose rows are drawn from rows.
StoreInit(rows) ==
    /\ table \in [Actions -> rows]
    /\ recs = <<>>
    /\ snapshots = 0
    /\ memEvents = 0
    /\ memTable = None
    /\ rewardLog = <<>>
    /\ weightsRow = None
    /\ today = 0
    /\ pc = [p \in Procs |-> "idle"]
    /\ loc = [p \in Procs |-> BlankLoc]
    /\ ret = [p \in Procs |-> NoRet]
    /\ calls = 0
    /\ saved = {}
    /\ permits = EMBEDDING_MAX_CONCURRENT_TASKS
    /\ waiters = <<>>
    /\ task = [t \in AllTasks |-> "idle"]
    /\ msr = None

DegenerateInit == StoreInit(DegenerateRows)

SampleNoise == {R(-1), R(1)}

DegenerateNext ==
    \/ \E a \in Actions :
          /\ table[a].total_pulls = 0
          /\ BanditUpdate("c1", a, AllHalf, R(1))
    \/ UpdLoad("c1") \/ UpdSave("c1") \/ UpdStats("c1")
    \/ SelectTop("c1", AllHalf, Len(Catalog), R(0))
    \/ \E z \in SampleNoise :
          SelectThompson("c1", AllHalf, [a \in Actions |-> z])

DegenerateSpec == DegenerateInit /\ [][DegenerateNext]_vars

\* Stores whose rows hold any state of the right dimensions, also one whose
\* precision matrix is not symmetric and whose mu is not uniform; updates
\* save and reload them.
AsymmetricParams ==
    [mu |-> [i \in Idx |-> R(i)],
     precision |-> [i \in Idx |-> [j \in Idx |->
                       IF i = j \/ (i = 1 /\ j = 2) THEN R(1) ELSE R(0)]]]

RoundTripRows == {InitRow(TRUE), StoredRow(AsymmetricParams)}

RoundTripNext ==
    \/ \E a \in Actions, x \in {AllHalf, Captured.ctx}, reward \in Outcomes :
          /\ table[a].total_pulls = 0
          /\ BanditUpdate("c1", a, x, reward)
    \/ UpdLoad("c1") \/ UpdSave("c1") \/ UpdStats("c1")

RoundTripSpec == StoreInit(RoundTripRows) /\ [][RoundTripNext]_vars

\* ===================================================================== claims
Quiescent == \A p \in Procs : pc[p] = "idle"

\* The precision an action's row must hold when every observation that
\* save_params has written for it is reflected: the prior plus one
\* noise * x * x^T for each of the commands 1..k.
RECURSIVE ObservedPrecision(_, _)
ObservedPrecision(a, k) ==
    IF k = 0 THEN MScale(Identity, R(PRIOR_PRECISION))
    ELSE LET S == {s \in saved : s.action = a /\ s.call = k}
             prev == ObservedPrecision(a, k - 1)
         IN  IF S = {} THEN prev
             ELSE LET s == CHOOSE s \in S : TRUE
                  IN  MAdd(prev, MScale(Outer(s.x, s.x), R(NOISE_PRECISION)))

\* C1: concurrent HybridBandit::update calls for one action are serialized:
\* once the overlapping updates have returned, the stored precision reflects
\* every observation that was saved (no lost update).
NoLostUpdate ==
    Quiescent =>
        \A a \in Actions :
            LET r == LoadParams(table, a)
            IN  r.ok => r.v.precision = ObservedPrecision(a, calls)

\* C2: load_params treats a stored blob of the wrong byte length as "no
\* stored model": it returns Ok with the fresh prior, never an error.
WrongLengthLoadsPrior ==
    \A a \in Actions :
        (/\ table[a].theta.some
         /\ table[a].precision_matrix.some
         /\ ~FromBytes(table[a].theta.v, table[a].precision_matrix.v).some)
        => (LoadParams(table, a).ok /\ LoadParams(table, a).v = NewParams)

\* C3: with no action enabled, get_recommendations (whose capture_context
\* succeeded) reports zero recommendations and not an Err.
EmptySelectionIsOk ==
    \A p \in Procs :
        (/\ GetActions(table) = <<>>
         /\ ret[p].op = "get_recommendations"
         /\ ret[p].err # "capture_context")
        => (ret[p].ok /\ ret[p].val = <<>>)

\* C4: a failure of capture_context always propagates: no model update is
\* computed and saved on a default-substituted context vector.
NoUpdateOnDefaultedContext ==
    \A p \in Procs : loc[p].after.some => loc[p].capOk

\* C5: every LinearBanditParams::update sets precision to
\* L_old + noise * x * x^T and mu to L_new^-1 * (L_old * mu_old +
\* noise * reward * x), L_old being the precision before this update.
UpdateUsesOldPrecision ==
    \A p \in Procs :
        loc[p].after.some =>
            LET old == loc[p].before.v
                x == loc[p].ctx
                precNew == MAdd(old.precision,
                                MScale(Outer(x, x), R(NOISE_PRECISION)))
                cov == TryInverse(precNew)
                rhs == VAdd(MatVec(old.precision, old.mu),
                            VScale(x, RMul(loc[p].reward, R(NOISE_PRECISION))))
            IN  /\ loc[p].after.v.precision = precNew
                /\ cov.some => loc[p].after.v.mu = MatVec(cov.v, rhs)

ImmediateOnly(row) ==
    ~row.reward_daily.some /\ ~row.reward_weekly.some /\ ~row.reward_monthly.some

\* C6: finalization of a reward-log row in which only the immediate reward
\* is present produces a total equal to the immediate reward: when the
\* maintenance (finalize_rewards) has just run, every such row has that total.
ImmediateOnlyTotalIsImmediate ==
    \A p \in Procs :
        ret[p].op = "run_agent_maintenance" =>
            \A i \in 1..Len(rewardLog) :
                ImmediateOnly(rewardLog[i]) =>
                    /\ rewardLog[i].reward_total.some
                    /\ rewardLog[i].reward_total.v = rewardLog[i].reward_immediate

\* Numerator and divisor of the blend over the horizons present.
PresentBlend(immediate, daily, weekly, monthly, w) ==
    LET term(o, wi) == IF o.some THEN RMul(wi, o.v) ELSE R(0)
        wgt(o, wi) == IF o.some THEN wi ELSE R(0)
    IN  [num |-> RAdd(RAdd(RMul(w.immediate, immediate), term(daily, w.daily)),
                      RAdd(term(weekly, w.weekly), term(monthly, w.monthly))),
         den |-> RAdd(RAdd(w.immediate, wgt(daily, w.daily)),
                      RAdd(wgt(weekly, w.weekly), wgt(monthly, w.monthly)))]

MsrBlend ==
    (msr.some /\ msr.v.total.some) =>
        LET b == PresentBlend(msr.v.immediate, msr.v.daily, msr.v.weekly,
                              msr.v.monthly, msr.v.weights)
        IN  ~RIsZero(b.den) => msr.v.total.v = RDiv(b.num, b.den)

LogBlend ==
    \A i \in 1..Len(rewardLog) :
        (~rewardLog[i].reward_total.some /\ rewardLog'[i].reward_total.some) =>
            LET r == rewardLog'[i]
                b == PresentBlend(r.reward_immediate, r.reward_daily,
                                  r.reward_weekly, r.reward_monthly,
                                  GetWeights(weightsRow))
            IN  ~RIsZero(b.den) /\ r.reward_total.v = RDiv(b.num, b.den)

RowComplete(i) ==
    /\ Len(rewardLog) >= i
    /\ rewardLog[i].reward_daily.some
    /\ rewardLog[i].reward_weekly.some
    /\ rewardLog[i].reward_monthly.some
    /\ rewardLog[i].reward_total.some

\* C8: every row of the reward log eventually has its daily, weekly and
\* monthly rewards backfilled and its total computed, the maintenance being
\* run again and again.
EveryRowEventuallyComplete ==
    \A i \in 1..MaxCalls : (Len(rewardLog) >= i) ~> RowComplete(i)

\* C9: once a row's total is finalized and no command is in progress, the
\* model update has been invoked for the row's action and context with the
\* blended total as its reward.
BlendedRewardFedBack ==
    Quiescent =>
        \A i \in 1..Len(rewardLog) :
            rewardLog[i].reward_total.some =>
                \E s \in saved :
                    /\ s.action = rewardLog[i].action_name
                    /\ s.x = rewardLog[i].context
                    /\ s.reward = rewardLog[i].reward_total.v

PermitHolders == {t \in AllTasks : task[t] \in {"spawned", "running"}}

\* C10: at every moment at most EMBEDDING_MAX_CONCURRENT_TASKS closures of
\* run_embedding_task hold a permit, so at most that many embedding
\* computations execute, however many calls are in flight.
EmbeddingsBounded ==
    /\ Cardinality(PermitHolders) <= EMBEDDING_MAX_CONCURRENT_TASKS
    /\ Cardinality({t \in Tasks : task[t] = "running"})
           <= EMBEDDING_MAX_CONCURRENT_TASKS

\* C10 witness: the cap is reached while further calls are in flight.
CapReachedWitness ==
    /\ Cardinality({t \in Tasks : task[t] = "running"})
           = EMBEDDING_MAX_CONCURRENT_TASKS
    /\ Cardinality({t \in Tasks : task[t] = "waiting"}) >= 2

\* The bandit work a command in progress still has to do: the selection of
\* get_recommendations, the update of record_action_completed.
BanditPending(p) ==
    \/ pc[p] = "search_similar"
    \/ (pc[p] = "add_event" /\ loc[p].action # "")

\* C11: a command with a bandit selection or a bandit update still to make
\* never waits on the embedding semaphore: it is never queued for a permit
\* while the embedding closures of other callers hold every permit.
BanditNeverWaitsOnEmbedding ==
    \A p \in Procs :
        ~(/\ BanditPending(p)
          /\ task[TaskOf(p)] = "waiting"
          /\ permits = 0)

\* A step in which get_recommendations of client p learns that its memory
\* lookup failed: SemanticMemory::global() fails, or the embedding closure or
\* the vector search of search_similar returns an error.
MemoryFailureStep(p) ==
    \/ \E n \in RecCounts, cap \in {c \in CaptureOutcomes : c.ok},
          snapOk \in BOOLEAN : GetRecommendations(p, n, cap, snapOk, FALSE)
    \/ \E sr \in {o \in SearchOutcomes : ~o.ok} : SearchDone(p, sr)

\* select_top_actions has something to return: an enabled action, and
\* parameters that load for every enabled action.
Selectable ==
    /\ GetActions(table) # <<>>
    /\ \A a \in Actions : table[a].is_enabled => LoadParams(table, a).ok

DegradedResult(r) ==
    /\ r.op = "get_recommendations"
    /\ r.ok
    /\ Len(r.val) >= 1
    /\ \A i \in 1..Len(r.val) :
          /\ r.val[i].features[SIMILAR_IDX] = Half
          /\ r.val[i].similar_experiences = <<>>

\* C12: when obtaining the semantic memory, the query embedding or the
\* similarity search fails during get_recommendations, the command still
\* returns its recommendations (the selection having actions to return), the
\* feature similar_context_outcome of the vector it selects on is the neutral
\* 0.5 and the list of similar experiences is empty.
MemoryFailureDegrades ==
    [][\A p \in Procs :
          (MemoryFailureStep(p) /\ Selectable) => DegradedResult(ret'[p])]_vars

\* C12 witness: the memory holds events, get_recommendations was the last
\* command of the client and returned recommendations without any similar
\* experience: its lookup failed.
DegradedWitness ==
    /\ memTable.some
    /\ \E a \in Actions : table[a].theta.some
    /\ DegradedResult(ret["c1"])

\* C13: get_similar_context_outcomes on a semantic memory without any stored
\* event returns Ok((0.5, [])), never an error, whatever the embedding
\* closure would give (no embedding is asked for).
EmptyMemoryIsNeutral ==
    \A p \in Procs :
        /\ (pc[p] = "context_outcomes" => memTable.some)
        /\ (ret[p].op = "get_similar_context_outcomes" /\ ~memTable.some)
               => (ret[p].ok /\ ret[p].val = <<Half, <<>>>>)

\* C13 witness: the call has returned on a memory that holds no event.
EmptyMemoryWitness ==
    /\ ~memTable.some
    /\ ret["c1"].op = "get_similar_context_outcomes"
    /\ ret["c1"].val = <<Half, <<>>>>

\* The position of an action in the catalog.
CatalogPos(a) == CHOOSE i \in 1..Len(Catalog) : Catalog[i] = a

\* a is to come before b in a selection on x with beta: its score
\* expected_reward + beta * uncertainty is greater, or the scores are equal
\* and a comes first in the catalog.
RanksBefore(a, b, x, beta) ==
    LET sa == ScoreOf(LoadParams(table, a).v, x)
        sb == ScoreOf(LoadParams(table, b).v, x)
    IN  \/ UcbGreater(sa, sb, beta)
        \/ (~UcbGreater(sb, sa, beta) /\ CatalogPos(a) < CatalogPos(b))

\* C14: select_top_actions(context, n, beta) returns min(n, number of enabled
\* actions) entries, all of them enabled, in descending order of score with
\* equal scores in catalog order, and every enabled action left out ranks
\* after every entry returned.
SelectionSortedByScore ==
    \A p \in Procs :
        (ret[p].op = "select_top_actions" /\ ret[p].ok) =>
            LET r == ret[p].val
                x == loc[p].ctx
                beta == loc[p].beta
                enabled == {a \in Actions : table[a].is_enabled}
                returned == {r[i] : i \in 1..Len(r)}
            IN  /\ Len(r) = Min(loc[p].n, Cardinality(enabled))
                /\ returned \subseteq enabled
                /\ \A i, j \in 1..Len(r) :
                      i < j => RanksBefore(r[i], r[j], x, beta)
                /\ \A a \in enabled \ returned : \A i \in 1..Len(r) :
                      RanksBefore(r[i], a, x, beta)

\* C14 witness: a selection of two of three enabled actions that the order
\* of scores, not the catalog, decided, and a selection that leaves a
\* disabled action out.
SortedSelectionWitness ==
    /\ ret["c1"].op = "select_top_actions"
    /\ \A a \in Actions : table[a].is_enabled
    /\ loc["c1"].n = 2
    /\ Len(ret["c1"].val) = 2
    /\ CatalogPos(ret["c1"].val[1]) > CatalogPos(ret["c1"].val[2])

\* The stored prediction of action a on x.
StoredPredict(a, x) == Predict(LoadParams(table, a).v, x)

\* C15: with beta = 0 the order of a selection is that of predict alone:
\* no entry has a smaller prediction than a later entry or than an enabled
\* action left out, and equal predictions keep catalog order; an action
\* updated once with reward 1.0 on the all-0.5 context comes first among
\* actions never updated when the selection is made on that context.
GreedyOrdersByPrediction ==
    \A p \in Procs :
        (ret[p].op = "select_top_actions" /\ ret[p].ok /\ RIsZero(loc[p].beta)) =>
            LET r == ret[p].val
                x == loc[p].ctx
                returned == {r[i] : i \in 1..Len(r)}
            IN  /\ \A i, j \in 1..Len(r) : i < j =>
                      /\ ~RLt(StoredPredict(r[i], x), StoredPredict(r[j], x))
                      /\ ~RLt(StoredPredict(r[j], x), StoredPredict(r[i], x))
                            => CatalogPos(r[i]) < CatalogPos(r[j])
                /\ \A a \in Actions \ returned : \A i \in 1..Len(r) :
                      ~RLt(StoredPredict(r[i], x), StoredPredict(a, x))
                /\ \A b \in Actions :
                      ( /\ loc[p].n >= 1
                        /\ x = AllHalf
                        /\ table[b].total_pulls = 1
                        /\ table[b].total_reward = R(1)
                        /\ \A a \in Actions \ {b} : table[a].total_pulls = 0 )
                      => r[1] = b

\* C15 witness: the last action of the catalog, updated once with reward
\* 1.0, heads a greedy selection before two actions never updated.
GreedyWitness ==
    /\ ret["c1"].op = "select_top_actions"
    /\ RIsZero(loc["c1"].beta)
    /\ loc["c1"].n = Len(Catalog)
    /\ table[Catalog[Len(Catalog)]].total_pulls = 1
    /\ table[Catalog[Len(Catalog)]].total_reward = R(1)
    /\ \A i \in 1..(Len(Catalog) - 1) : table[Catalog[i]].total_pulls = 0
    /\ ret["c1"].val[1] = Catalog[Len(Catalog)]

\* Client p has just applied update(x, reward) to a fresh model.
FreshUpdated(p) ==
    /\ pc[p] = "upd_stats"
    /\ loc[p].before = Some(NewParams)

IsZeroVector(x) == \A i \in Idx : RIsZero(x[i])

\* C16 as stated: on a fresh model, for any x, update(x, 1.0) gives
\* predict(x) > 0, update(x, 0.0) gives predict(x) <= 0, and the uncertainty
\* at x after the update is strictly less than that of the fresh model.
FreshUpdateAnyContext ==
    \A p \in Procs : FreshUpdated(p) =>
        LET x == loc[p].ctx
            after == loc[p].after.v
        IN  /\ loc[p].reward = R(1) => RLt(R(0), Predict(after, x))
            /\ loc[p].reward = R(0) => RLe(Predict(after, x), R(0))
            /\ RLt(UncertaintySq(after, x), UncertaintySq(NewParams, x))

\* C16 amended: the same for any x that is not the zero vector; for the zero
\* vector the prediction stays 0 and the uncertainty stays 0.
FreshUpdateNonzeroContext ==
    \A p \in Procs : FreshUpdated(p) =>
        LET x == loc[p].ctx
            after == loc[p].after.v
        IN  /\ loc[p].reward = R(0) => RLe(Predict(after, x), R(0))
            /\ ~IsZeroVector(x) =>
                  /\ loc[p].reward = R(1) => RLt(R(0), Predict(after, x))
                  /\ RLt(UncertaintySq(after, x), UncertaintySq(NewParams, x))
            /\ IsZeroVector(x) =>
                  /\ RIsZero(Predict(after, x))
                  /\ RIsZero(UncertaintySq(after, x))
                  /\ RIsZero(UncertaintySq(NewParams, x))

\* C16 witness: a fresh model updated with reward 1.0 on a context with a
\* negative and a positive feature.
FreshUpdateWitness ==
    /\ FreshUpdated("c1")
    /\ loc["c1"].reward = R(1)
    /\ \E i, j \in Idx : /\ RLt(loc["c1"].ctx[i], R(0))
                         /\ RLt(R(0), loc["c1"].ctx[j])

\* Client p takes a writing step of HybridBandit::update for action a.
UpdateWrites(p, a) ==
    /\ pc[p] \in {"upd_save", "upd_stats"}
    /\ pc'[p] # pc[p]
    /\ loc[p].action = a

\* C17: no step adds or removes a row of agent_linear_bandit, and a row
\* changes only in a writing step of HybridBandit::update for its action:
\* selections and get_recommendations change no row, an update changes no
\* other action's row, and an update for a name without a row changes none.
RowsChangeOnlyByOwnUpdate ==
    [][ /\ DOMAIN table' = DOMAIN table
        /\ \A a \in DOMAIN table :
              table'[a] # table[a] => \E p \in Procs : UpdateWrites(p, a)
        /\ (\E p \in Procs : UpdateWrites(p, AbsentAction)
                             /\ \A q \in Procs \ {p} : pc'[q] = pc[q])
              => table' = table ]_vars

\* C17 witness: an update for a name without a row and an update of a
\* catalog action have been saved, and a selection has returned since.
FrameWitness ==
    /\ \E s \in saved : s.action = AbsentAction
    /\ \E s \in saved : s.action \in Actions
    /\ \E a \in Actions : table[a].total_pulls = 1
    /\ ret["c2"].op = "select_top_actions"
    /\ pc["c1"] = "idle"

\* The four weights sum to 1.0 within 0.01.
SumsToOne(w) ==
    LET total == RAdd(RAdd(w.immediate, w.daily), RAdd(w.weekly, w.monthly))
    IN  RLe(Norm(99, 100), total) /\ RLe(total, Norm(101, 100))

\* C18: a set_reward_weights whose weights do not sum to 1.0 within 0.01
\* returns the validation error and leaves the stored weights as they were,
\* and the weights get_weights gives to finalize_rewards sum to 1.0 within
\* 0.01 after every step.
RejectedWeightsNeverStored ==
    [][ /\ \A w \in WeightInputs :
              (SetRewardWeights("c1", w) /\ ~SumsToOne(w)) =>
                  /\ ret'["c1"] = RetErr("set_reward_weights",
                                         "Weights must sum to 1.0")
                  /\ weightsRow' = weightsRow
        /\ SumsToOne(GetWeights(weightsRow'))
        /\ (\E d \in DayData : DailyMaintenance("c1", d))
              => SumsToOne(GetWeights(weightsRow)) ]_vars

\* C18 witness: weights other than the default are stored, a later
\* set_reward_weights has been rejected, and a row has been finalized.
RejectedWeightsWitness ==
    /\ weightsRow.some
    /\ weightsRow.v # DefaultWeights
    /\ ret["c1"] = RetErr("set_reward_weights", "Weights must sum to 1.0")
    /\ \E i \in 1..Len(rewardLog) : rewardLog[i].reward_total.some

\* The signals present among the arguments held in l, as <<name, value>>.
SignalsPresent(l) ==
    {<<"accepted", IF l.accepted THEN R(1) ELSE Norm(1, 5)>>}
        \cup (IF l.fscore.some
              THEN {<<"feedback", Norm(l.fscore.v + 1, 2)>>} ELSE {})
        \cup (IF l.completed THEN {<<"completed", R(1)>>} ELSE {})
        \cup (IF l.rating.some
              THEN {<<"rating", Norm(l.rating.v - 1, 4)>>} ELSE {})

RECURSIVE SignalSum(_)
SignalSum(S) ==
    IF S = {} THEN R(0)
    ELSE LET s == CHOOSE s \in S : TRUE
         IN  RAdd(s[2], SignalSum(S \ {s}))

\* C19: compute_immediate_reward returns the sum of the signals present
\* divided by their number, a task not completed being no signal; with
\* accepted = true and nothing else it returns 1.0.
ImmediateIsAverageOfPresent ==
    \A p \in Procs :
        ret[p].op = "compute_immediate_reward" =>
            /\ ret[p].val = RDiv(SignalSum(SignalsPresent(loc[p])),
                                 R(Cardinality(SignalsPresent(loc[p]))))
            /\ (loc[p].accepted /\ ~loc[p].fscore.some
                    /\ ~loc[p].completed /\ ~loc[p].rating.some)
                  => ret[p].val = R(1)

\* C19 witness: the call of the scenario, accepted and no other signal.
AcceptedOnlyWitness ==
    /\ ret["c1"].op = "compute_immediate_reward"
    /\ loc["c1"].accepted /\ ~loc["c1"].fscore.some
    /\ ~loc["c1"].completed /\ ~loc["c1"].rating.some

\* C20: every immediate reward that record_feedback computes and logs lies
\* in [0, 1].
ImmediateRewardInUnitInterval ==
    \A i \in 1..Len(rewardLog) :
        /\ RLe(R(0), rewardLog[i].reward_immediate)
        /\ RLe(rewardLog[i].reward_immediate, R(1))

\* C21: in the context that get_recommendations scores, history_x_current
\* is the product of similar_context_outcome and energy_level of that same
\* context.
InteractionIsProduct ==
    \A p \in Procs :
        (ret[p].op = "get_recommendations" /\ ret[p].ok) =>
            \A i \in 1..Len(ret[p].val) :
                ret[p].val[i].history_x_current =
                    RMul(ret[p].val[i].features[SIMILAR_IDX],
                         ret[p].val[i].features[ENERGY_IDX])

InRange(x, lo, hi) == RLe(R(lo), x) /\ RLe(x, R(hi))

\* C22: after capture_context every feature lies in [0,1], except the
\* trajectories, in [-1,1], and workload_balance, in [0,2].
CapturedFeaturesInRange ==
    \A p \in Procs :
        ret[p].op = "capture_context" =>
            /\ InRange(ret[p].val.week_of_year, 0, 1)
            /\ InRange(ret[p].val.energy_level, 0, 1)
            /\ InRange(ret[p].val.energy_trajectory, -1, 1)
            /\ InRange(ret[p].val.pomodoros_today, 0, 1)
            /\ InRange(ret[p].val.study_hours_week, 0, 1)
            /\ InRange(ret[p].val.target_hours_week, 0, 1)
            /\ InRange(ret[p].val.workload_balance, 0, 2)

\* Every signal of the day d is on target.
OnTarget(d) ==
    /\ d.big3_count > 0
    /\ d.big3_done = d.big3_count
    /\ d.had_checkin
    /\ d.study_mins >= 120 /\ d.study_mins <= 360

\* C23: the daily reward of a day on which every signal is on target (all
\* Big 3 goals completed, a check-in, session minutes within 120..360) is
\* 1.0: that is what a maintenance run over such a day writes to the rows it
\* backfills.
DailyRewardOnTargetIsOne ==
    [][ \A d \in DayData :
            (DailyMaintenance("c1", d) /\ OnTarget(d)) =>
                \A i \in 1..Len(rewardLog) :
                    (~rewardLog[i].reward_daily.some
                         /\ rewardLog'[i].reward_daily.some)
                        => rewardLog'[i].reward_daily.v = R(1) ]_vars

\* The precision matrix m has no inverse.
Singular(m) == RIsZero(Det(m, Idx, Idx))

\* C24: a precision matrix without inverse makes no operation fail.  For
\* every stored state whose precision is singular the uncertainty is the
\* constant 1.0 and the Thompson sample is predict(x), as it is when the
\* covariance has no Cholesky factor; an update whose new precision is
\* singular moves mu by step * (reward - predict(x)) * x; selections and
\* updates return Ok.
DegenerateFallbacks ==
    /\ \A a \in Actions :
          LET params == LoadParams(table, a).v
          IN  /\ LoadParams(table, a).ok
              /\ Singular(params.precision) =>
                    UncertaintySq(params, AllHalf) = R(1)
              /\ (Singular(params.precision)
                     \/ ~HasCholesky(TryInverse(params.precision).v)) =>
                    \A z \in SampleNoise :
                        ThompsonSample(params, AllHalf, z)
                            = Dot(params.mu, AllHalf)
    /\ \A p \in Procs :
          /\ ret[p].op \in {"update", "select_top_actions",
                            "select_action_thompson"} => ret[p].ok
          /\ pc[p] = "upd_stats" =>
                LET b == loc[p].before.v
                    x == loc[p].ctx
                    precNew == MAdd(b.precision, Outer(x, x))
                IN  /\ loc[p].after.v.precision = precNew
                    /\ Singular(precNew) =>
                          loc[p].after.v.mu =
                              VAdd(b.mu,
                                   VScale(x, RMul(Norm(GRADIENT_STEP_PCT, 100),
                                                  RSub(loc[p].reward,
                                                       Dot(b.mu, x)))))

\* C24 witness: an update has taken the gradient step on a singular
\* precision matrix.
GradientStepWitness ==
    /\ pc["c1"] = "upd_stats"
    /\ Singular(loc["c1"].after.v.precision)
    /\ loc["c1"].after.v.mu # loc["c1"].before.v.mu

\* C25: every stored state has blobs of FEATURE_DIM * 8 and
\* FEATURE_DIM * FEATURE_DIM * 8 bytes and loads to a state that serialises
\* to the same blobs; the state an update has just saved deserialises to
\* itself, is what load_params reads back, and predicts the same.
RoundTripKeepsState ==
    /\ \A a \in Actions :
          table[a].theta.some =>
              /\ ByteLen(table[a].theta.v) = FEATURE_DIM * 8
              /\ ByteLen(table[a].precision_matrix.v)
                     = FEATURE_DIM * FEATURE_DIM * 8
              /\ LoadParams(table, a).ok
              /\ ToBytes(LoadParams(table, a).v).theta = table[a].theta.v
              /\ ToBytes(LoadParams(table, a).v).prec
                     = table[a].precision_matrix.v
    /\ \A p \in Procs :
          pc[p] = "upd_stats" =>
              LET after == loc[p].after.v
                  restored == FromBytes(ToBytes(after).theta, ToBytes(after).prec)
              IN  /\ restored = Some(after)
                  /\ LoadParams(table, loc[p].action) = Ok(after)
                  /\ \A x \in {AllHalf, Captured.ctx} :
                        Predict(restored.v, x) = Predict(after, x)

\* C25 witness: an update has saved a state whose precision matrix is not
\* symmetric.
RoundTripWitness ==
    /\ pc["c1"] = "upd_stats"
    /\ \E i, j \in Idx :
          loc["c1"].after.v.precision[i][j] # loc["c1"].after.v.precision[j][i]

\* Recommendations asked for by two clients over any enablement of the
\* catalog: the capture or the snapshot may fail, the memory may be in use or
\* not, and a stored blob may be corrupted between calls.
SnapshotCounts == {0, 2, Len(Catalog) + 1}
SnapshotCaptures == {c \in CaptureOutcomes : ~c.ok} \cup {Captured}

SnapshotNext ==
    \/ \E n \in SnapshotCounts, cap \in SnapshotCaptures,
          snapOk \in BOOLEAN, memOk \in BOOLEAN :
          GetRecommendations("c1", n, cap, snapOk, memOk)
    \/ \E snapOk \in BOOLEAN :
          GetRecommendations("c2", 1, Captured, snapOk, TRUE)
    \/ RecordActionCompleted("c1", "workout", R(1), TRUE, Captured)
    \/ ClientEmbed("c1")
    \/ ClientEmbed("c2")
    \/ UpdLoad("c1") \/ UpdSave("c1") \/ UpdStats("c1")
    \/ \E a \in Actions : CorruptBlob(a)

SnapshotSpec == Init /\ [][SnapshotNext]_vars

\* The step is the first of a call of get_recommendations by client p: the
\* call returns in it or goes on to search the memory.
StartsRecommendations(p) ==
    /\ pc[p] = "idle"
    /\ calls' = calls + 1
    /\ loc'[p].cmd = "get_recommendations"
    /\ loc'[p].call = calls'

\* The step is the last of a call of get_recommendations that searched the
\* memory.
EndsRecommendations(p) == pc[p] = "search_similar" /\ pc'[p] = "idle"

\* The rows of agent_recommendations that a step appends.
NewRows == SubSeq(recs', Len(recs) + 1, Len(recs'))

\* The step returns from get_recommendations(n) as the claim has it: n
\* recommendations when n actions or more are enabled.
ReturnsExactly(p, n) ==
    (ret'[p].op = "get_recommendations" /\ Len(GetActions(table)) >= n) =>
        /\ ret'[p].ok
        /\ Len(ret'[p].val) = n

\* The step returns Ok from get_recommendations(n) with min(n, enabled
\* actions) recommendations, each of them recorded.
ReturnsUpTo(p, n) ==
    (ret'[p].op = "get_recommendations" /\ ret'[p].ok) =>
        /\ Len(ret'[p].val) = Min(n, Len(GetActions(table)))
        /\ Len(NewRows) = Len(ret'[p].val)

CounterNext ==
    \/ \E p \in Procs, a \in Actions, reward \in Outcomes :
          BanditUpdate(p, a, AllHalf, reward)
    \/ \E p \in Procs : UpdLoad(p)
    \/ \E p \in Procs : UpdSave(p)
    \/ \E p \in Procs : UpdStats(p)
    \/ \E p \in Procs : UpdStatsFail(p)

CounterSpec == RewardInit /\ [][CounterNext]_vars

\* The precision matrix after the observations S: the prior plus one
\* noise * x * x^T for each.
RECURSIVE PrecisionOf(_)
PrecisionOf(S) ==
    IF S = {} THEN MScale(Identity, R(PRIOR_PRECISION))
    ELSE LET s == CHOOSE s \in S : TRUE
         IN  MAdd(PrecisionOf(S \ {s}),
                  MScale(Outer(s.x, s.x), R(NOISE_PRECISION)))

RECURSIVE RewardSum(_)
RewardSum(S) ==
    IF S = {} THEN R(0)
    ELSE LET s == CHOOSE s \in S : TRUE
         IN  RAdd(RewardSum(S \ {s}), s.reward)

\* C27: when no update is under way, each action's row counts the
\* observations that its stored precision matrix holds: some total_pulls of
\* the observations saved for the action give the stored precision, their
\* rewards sum to total_reward, and avg_reward is total_reward / total_pulls.
CountersMatchModel ==
    Quiescent =>
        \A a \in Actions :
            LET r == LoadParams(table, a)
            IN  r.ok =>
                  \E S \in SUBSET {s \in saved : s.action = a} :
                      /\ Cardinality(S) = table[a].total_pulls
                      /\ r.v.precision = PrecisionOf(S)
                      /\ table[a].total_reward = RewardSum(S)
                      /\ table[a].total_pulls > 0 =>
                            table[a].avg_reward =
                                RDiv(table[a].total_reward,
                                     R(table[a].total_pulls))

\* The reward log through the days, with maintenance runs that end in an
\* error.
MaintenanceNext ==
    \/ RewardNext
    \/ \E d \in DayData, at \in MaintenanceFailures :
          DailyMaintenanceFails("c1", d, at)

MaintenanceSpec == RewardInit /\ [][MaintenanceNext]_vars

\* C28: no step changes reward_immediate of a logged row, nor a reward_daily
\* or a reward_total that is not NULL; and after a daily_maintenance that
\* returned Ok, a second run at once, complete or ending in an error at
\* either statement, whatever the store holds for yesterday, leaves the
\* reward log as it is.
MaintenanceKeepsRewards ==
    [][/\ Len(rewardLog') >= Len(rewardLog)
       /\ \A i \in 1..Len(rewardLog) :
             /\ rewardLog'[i].reward_immediate = rewardLog[i].reward_immediate
             /\ rewardLog[i].reward_daily.some =>
                   rewardLog'[i].reward_daily = rewardLog[i].reward_daily
             /\ rewardLog[i].reward_total.some =>
                   rewardLog'[i].reward_total = rewardLog[i].reward_total
       /\ (\E d \in DayData : DailyMaintenance("c1", d)) =>
             \A d2 \in DayData :
                 LET daily == UpdateDailyRewards(rewardLog',
                                  compute_daily_reward(d2.big3_count,
                                      d2.big3_done, d2.had_checkin,
                                      d2.study_mins))
                 IN  /\ daily = rewardLog'
                     /\ FinalizeRewards(daily, GetWeights(weightsRow'))
                            = rewardLog']_vars

\* C28 witness: the maintenance has returned Ok over a row that it gave a
\* daily reward and a total.
MaintenanceWitness ==
    /\ ret["c1"].op = "run_agent_maintenance"
    /\ ret["c1"].ok
    /\ \E i \in 1..Len(rewardLog) :
          /\ rewardLog[i].reward_daily.some
          /\ rewardLog[i].reward_total.some
          /\ rewardLog[i].age = 1

\* Two clients add events with computed embeddings to a semantic memory
\* whose table does not exist at first.
MemRaceNext ==
    \/ \E p \in Procs, o \in Outcomes : AddEventWithEmbedding(p, o)
    \/ \E p \in Procs : AddCheck(p)
    \/ \E p \in Procs : AddWrite(p)

MemRaceSpec == Init /\ [][MemRaceNext]_vars

\* C29: every add_event_with_embedding call that has returned returned Ok,
\* and its event is in memory_events.
OverlappingAddsAllStored ==
    \A p \in Procs :
        (pc[p] = "idle" /\ loc[p].cmd = "add_event_with_embedding") =>
            /\ ret[p].ok
            /\ memTable.some
            /\ loc[p].reward \in memTable.v

\* The closures that hold a permit: given to spawn_blocking or running.
Holding == {t \in AllTasks : task[t] \in {"spawned", "running"}}

\* C30: every run_embedding_task call returns in the end and every queued
\* call is run in the end; the permits free and the permits held by
\* closures always add up to the cap, so all of them are free when no closure
\* is left.
EmbeddingTasksReturn ==
    /\ [](permits + Cardinality(Holding) = EMBEDDING_MAX_CONCURRENT_TASKS)
    /\ \A t \in Tasks :
          /\ (task[t] = "waiting") ~> (task[t] = "running")
          /\ (task[t] # "idle") ~> (task[t] = "idle")

\* C30 witness: the permits are all taken and calls beyond the cap wait in
\* the queue of the semaphore.
QueuedBeyondCapWitness ==
    /\ permits = 0
    /\ Cardinality({t \in Tasks : task[t] = "running"})
           = EMBEDDING_MAX_CONCURRENT_TASKS
    /\ Len(waiters) = NTasks - EMBEDDING_MAX_CONCURRENT_TASKS

====
